---------------------------- MODULE Spec2Model ----------------------------
(***************************************************************************)
(* A state-machine model of the chocollvm front end: the scoped,           *)
(* error-accumulating type checker (compiler/typechecker.py) walking a     *)
(* Program tree produced by the legality parser, driven by                 *)
(* Compiler.typecheck.                                                     *)
(*                                                                         *)
(* The checker is a recursive visitor.  Its Python call stack is the       *)
(* variable `stack`: one frame per pending call (a visit of a node, a      *)
(* callback, or an addError call).  A callback that loops over children    *)
(* keeps its loop index in its frame.                                      *)
(***************************************************************************)
EXTENDS Integers, Sequences, FiniteSets, TLC

(***************************************************************************)
(* Bounds of the model.                                                    *)
(***************************************************************************)
\* How many times the driver calls Compiler.typecheck on the one tree.
MaxRuns == 2
\* How many statements a drawn statement block holds at most.
MaxStmts == 2

(***************************************************************************)
(* Value types and function types (compiler/types).                        *)
(***************************************************************************)
\* Python's None, as the value of an unset slot (inferredType, errorMsg,
\* expReturnType, a ReturnStmt without value, a missing table entry).
PyNone == [kind |-> "None"]

ClassValueType(className) == [kind |-> "ClassValueType", className |-> className]

FuncType(parameters, returnType) ==
    [kind |-> "FuncType", parameters |-> parameters, returnType |-> returnType]

IntType == ClassValueType("int")
BoolType == ClassValueType("bool")
StrType == ClassValueType("str")
NoneType == ClassValueType("<None>")
EmptyType == ClassValueType("<Empty>")
ObjectType == ClassValueType("object")

\* isinstance(t, ValueType) / isinstance(t, FuncType)
IsValueType(t) == t.kind = "ClassValueType"
IsFuncType(t) == t.kind = "FuncType"

\* ClassValueType.__str__, and str(None)
TypeStr(t) == IF t.kind = "ClassValueType" THEN t.className
              ELSE IF t.kind = "None" THEN "None" ELSE "FuncType"

(***************************************************************************)
(* The type system registry (compiler/typesystem.py).                      *)
(***************************************************************************)
static_types == {IntType, BoolType, StrType}

\* The registry holds only the built-in class names.
classExists(name) == name \in {"object", "int", "bool", "str"}

\* The initializer of a built-in class takes the receiver only.
getMethodInit(className) == FuncType(<<ObjectType>>, NoneType)

\* Assignability: identical types; every type to object (subtyping);
\* <None> and <Empty> to every type that is not int, bool or str.
canAssign(a, b) ==
    \/ a = b
    \/ b = ObjectType
    \/ a \in {NoneType, EmptyType} /\ IsValueType(b) /\ b \notin static_types

\* Least upper bound without user classes.
join(a, b) == IF a = b THEN a ELSE ObjectType

(***************************************************************************)
(* AST nodes (compiler/astnodes), as built by the parser.                  *)
(***************************************************************************)
Identifier(name) == [kind |-> "Identifier", name |-> name]
IntegerLiteral == [kind |-> "IntegerLiteral"]
BooleanLiteral == [kind |-> "BooleanLiteral"]
StringLiteral == [kind |-> "StringLiteral"]
NoneLiteral == [kind |-> "NoneLiteral"]
BinaryExpr(left, operator, right) ==
    [kind |-> "BinaryExpr", left |-> left, operator |-> operator, right |-> right]
UnaryExpr(operator, operand) ==
    [kind |-> "UnaryExpr", operator |-> operator, operand |-> operand]
IfExpr(condition, thenExpr, elseExpr) ==
    [kind |-> "IfExpr", condition |-> condition, thenExpr |-> thenExpr,
     elseExpr |-> elseExpr]
CallExpr(function, args) ==
    [kind |-> "CallExpr", function |-> function, args |-> args]
AssignStmt(targets, value) ==
    [kind |-> "AssignStmt", targets |-> targets, value |-> value]
IfStmt(condition, thenBody, elseBody) ==
    [kind |-> "IfStmt", condition |-> condition, thenBody |-> thenBody,
     elseBody |-> elseBody]
WhileStmt(condition, body) ==
    [kind |-> "WhileStmt", condition |-> condition, body |-> body]
ReturnStmt(value) == [kind |-> "ReturnStmt", value |-> value]
ExprStmt(expr) == [kind |-> "ExprStmt", expr |-> expr]
ClassType(className) == [kind |-> "ClassType", className |-> className]
TypedVar(identifier, type) ==
    [kind |-> "TypedVar", identifier |-> identifier, type |-> type]
VarDef(var, value) == [kind |-> "VarDef", var |-> var, value |-> value]
\* The parser never passes isMethod: class definitions are rejected.
FuncDef(name, params, returnType, declarations, statements) ==
    [kind |-> "FuncDef", name |-> name, params |-> params,
     returnType |-> returnType, declarations |-> declarations,
     statements |-> statements, isMethod |-> FALSE]
Program(declarations, statements) ==
    [kind |-> "Program", declarations |-> declarations, statements |-> statements]

ExprKinds == {"Identifier", "IntegerLiteral", "BooleanLiteral", "StringLiteral",
              "NoneLiteral", "BinaryExpr", "UnaryExpr", "IfExpr", "CallExpr"}
LiteralKinds == {"IntegerLiteral", "BooleanLiteral", "StringLiteral", "NoneLiteral"}
StmtKinds == {"AssignStmt", "IfStmt", "WhileStmt", "ReturnStmt", "ExprStmt"}

(***************************************************************************)
(* A node is named by its path from the root: the fields followed, with    *)
(* the index into a list field (0 for a field holding one node).  The      *)
(* path stands for the node object, and for its source location.           *)
(***************************************************************************)
Sub(path, f) == Append(path, [f |-> f, i |-> 0])
Elem(path, f, i) == Append(path, [f |-> f, i |-> i])

Child(n, e) == IF e.i = 0 THEN n[e.f] ELSE n[e.f][e.i]

RECURSIVE Walk(_, _)
Walk(n, path) == IF path = <<>> THEN n ELSE Walk(Child(n, Head(path)), Tail(path))

\* The paths of the nodes a list field holds, in order.
ElemsOf(n, path, f) == [i \in 1..Len(n[f]) |-> Elem(path, f, i)]

\* Every node that is a direct child of node n at path, in field order.
Fields(n, path) ==
    CASE n.kind = "Program" ->
            ElemsOf(n, path, "declarations") \o ElemsOf(n, path, "statements")
      [] n.kind = "FuncDef" ->
            <<Sub(path, "name")>> \o ElemsOf(n, path, "params")
            \o <<Sub(path, "returnType")>> \o ElemsOf(n, path, "declarations")
            \o ElemsOf(n, path, "statements")
      [] n.kind = "VarDef" -> <<Sub(path, "var"), Sub(path, "value")>>
      [] n.kind = "TypedVar" -> <<Sub(path, "identifier"), Sub(path, "type")>>
      [] n.kind = "AssignStmt" ->
            ElemsOf(n, path, "targets") \o <<Sub(path, "value")>>
      [] n.kind = "IfStmt" ->
            <<Sub(path, "condition")>> \o ElemsOf(n, path, "thenBody")
            \o ElemsOf(n, path, "elseBody")
      [] n.kind = "WhileStmt" ->
            <<Sub(path, "condition")>> \o ElemsOf(n, path, "body")
      [] n.kind = "ReturnStmt" ->
            IF n.value = PyNone THEN <<>> ELSE <<Sub(path, "value")>>
      [] n.kind = "ExprStmt" -> <<Sub(path, "expr")>>
      [] n.kind = "BinaryExpr" -> <<Sub(path, "left"), Sub(path, "right")>>
      [] n.kind = "UnaryExpr" -> <<Sub(path, "operand")>>
      [] n.kind = "IfExpr" ->
            <<Sub(path, "condition"), Sub(path, "thenExpr"), Sub(path, "elseExpr")>>
      [] n.kind = "CallExpr" ->
            <<Sub(path, "function")>> \o ElemsOf(n, path, "args")
      [] OTHER -> <<>>

Range(s) == {s[i] : i \in DOMAIN s}

RECURSIVE PathsUnder(_, _)
PathsUnder(n, path) ==
    {path} \cup UNION {PathsUnder(Walk(n, <<c[Len(c)]>>), c) : c \in Range(Fields(n, path))}


RECURSIVE Flatten(_)
Flatten(ss) == IF ss = <<>> THEN <<>> ELSE Head(ss) \o Flatten(Tail(ss))

(***************************************************************************)
(* The programs the checker is run on: legal parser output (declarations   *)
(* before statements, no nested FuncDef, literal initializers, Identifier  *)
(* targets and callees, every FuncDef with a return annotation).           *)
(***************************************************************************)
\* Statements drawn into the blocks: a read of x, assignments to x and to
\* x and g, a return of x, a return without value, a call of g, an
\* addition on x.
StmtChoices ==
    { ExprStmt(Identifier("x")),
      ReturnStmt(PyNone),
      AssignStmt(<<Identifier("x")>>, BooleanLiteral),
      AssignStmt(<<Identifier("x"), Identifier("g")>>, BooleanLiteral),
      ReturnStmt(Identifier("x")),
      ExprStmt(CallExpr(Identifier("g"), <<BooleanLiteral, StringLiteral>>)),
      ExprStmt(BinaryExpr(Identifier("x"), "+", IntegerLiteral)) }

RECURSIVE SeqsUpTo(_, _)
SeqsUpTo(S, k) ==
    IF k = 0 THEN {<<>>}
    ELSE LET shorter == SeqsUpTo(S, k - 1)
         IN  shorter \cup {Append(s, e) : s \in shorter, e \in S}

\* Blocks with the compound statements and the remaining expression kinds.
CompoundBlocks ==
    { <<IfStmt(BinaryExpr(Identifier("x"), "<", IntegerLiteral),
               <<ReturnStmt(Identifier("x"))>>, <<ReturnStmt(PyNone)>>)>>,
      <<WhileStmt(UnaryExpr("not", Identifier("x")),
                  <<ExprStmt(IfExpr(Identifier("x"), NoneLiteral, IntegerLiteral))>>)>>,
      \* an if without else, an if on an int, a while that returns
      <<IfStmt(BooleanLiteral, <<ReturnStmt(Identifier("x"))>>, <<>>)>>,
      <<IfStmt(IntegerLiteral, <<ReturnStmt(Identifier("x"))>>, <<ReturnStmt(PyNone)>>)>>,
      <<WhileStmt(BinaryExpr(Identifier("x"), "<", IntegerLiteral),
                  <<ReturnStmt(Identifier("x"))>>)>> }

StmtBlocks == SeqsUpTo(StmtChoices, MaxStmts) \cup CompoundBlocks

Var(name, className, value) ==
    VarDef(TypedVar(Identifier(name), ClassType(className)), value)
Param(name, className) == TypedVar(Identifier(name), ClassType(className))

\* Declaration blocks around a drawn statement block ss.
DeclBlocks(ss) ==
    { \* no declaration: x and g are unbound
      <<>>,
      \* module variables
      <<Var("x", "bool", BooleanLiteral), Var("g", "bool", BooleanLiteral)>>,
      \* a global x, shadowed by f's parameter and not by h
      <<Var("x", "int", IntegerLiteral),
        FuncDef(Identifier("f"), <<Param("x", "bool")>>, ClassType("bool"), <<>>, ss),
        FuncDef(Identifier("h"), <<>>, ClassType("int"), <<>>, ss)>>,
      \* f refers to g, which is declared after it
      <<FuncDef(Identifier("f"), <<Param("x", "bool")>>, ClassType("bool"), <<>>, ss),
        FuncDef(Identifier("g"), <<Param("a", "int"), Param("b", "int")>>,
                ClassType("int"), <<>>, <<ReturnStmt(Identifier("a"))>>)>>,
      \* local variables
      <<FuncDef(Identifier("f"), <<>>, ClassType("<None>"),
                <<Var("x", "bool", BooleanLiteral), Var("g", "bool", BooleanLiteral)>>,
                ss)>>,
      \* a module variable declared twice
      <<Var("x", "int", IntegerLiteral), Var("x", "bool", IntegerLiteral)>>,
      \* a local variable that repeats a parameter
      <<FuncDef(Identifier("f"), <<Param("x", "int")>>, ClassType("int"),
                <<Var("x", "bool", IntegerLiteral)>>, ss)>>,
      \* an unknown class in a signature
      <<FuncDef(Identifier("f"), <<Param("a", "foo")>>, ClassType("foo"), <<>>, ss)>>,
      \* an initializer of the wrong type
      <<Var("x", "int", BooleanLiteral)>>,
      \* a global x that h reads and assigns without declaring it
      <<Var("x", "bool", BooleanLiteral),
        FuncDef(Identifier("h"), <<>>, ClassType("<None>"), <<>>, ss)>>,
      \* g takes what the drawn call passes, and may call itself
      <<FuncDef(Identifier("g"), <<Param("x", "bool"), Param("b", "str")>>,
                ClassType("str"), <<>>, ss)>>,
      \* g takes one argument
      <<FuncDef(Identifier("g"), <<Param("a", "bool")>>, ClassType("bool"), <<>>,
                <<ReturnStmt(Identifier("a"))>>)>>,
      \* declarations named like a builtin function, a class, the function
      \* they stand in
      <<Var("print", "int", IntegerLiteral), Var("bool", "int", IntegerLiteral),
        FuncDef(Identifier("f"), <<>>, ClassType("<None>"),
                <<Var("f", "int", IntegerLiteral), Var("str", "int", IntegerLiteral)>>,
                ss)>> }

\* One binary expression over every operator and every pair of operands
\* typed int, bool, str, <None> and object (o is declared of class object).
BinaryOperators ==
    {"+", "-", "*", "//", "%", "<", "<=", ">", ">=", "==", "!=", "is", "and", "or"}
Operands == {IntegerLiteral, BooleanLiteral, StringLiteral, NoneLiteral, Identifier("o")}
TablePrograms ==
    {Program(<<Var("o", "object", NoneLiteral)>>, <<ExprStmt(BinaryExpr(l, op, r))>>) :
        l \in Operands, op \in BinaryOperators, r \in Operands}

\* def add(a: int, b: int) -> int: return a + b, then print(add(1, 2)).
AddProgram ==
    Program(<<FuncDef(Identifier("add"), <<Param("a", "int"), Param("b", "int")>>,
                      ClassType("int"), <<>>,
                      <<ReturnStmt(BinaryExpr(Identifier("a"), "+", Identifier("b")))>>)>>,
            <<ExprStmt(CallExpr(Identifier("print"),
                  <<CallExpr(Identifier("add"), <<IntegerLiteral, IntegerLiteral>>)>>))>>)

Programs ==
    UNION {{Program(ds, ss) : ds \in DeclBlocks(ss)} : ss \in StmtBlocks}
    \cup TablePrograms \cup {AddProgram}

(***************************************************************************)
(* State.                                                                  *)
(***************************************************************************)
VARIABLES
    program,        \* the tree handed to Compiler.typecheck
    status,         \* where the driver is: idle, checking, returned, raised
    runs,           \* calls of Compiler.typecheck so far
    stack,          \* pending calls of the checker, innermost first
    symbolTables,   \* TypeChecker.symbolTables, global scope first
    expReturnType,  \* TypeChecker.expReturnType
    errors,         \* TypeChecker.errors
    programErrors,  \* Program.errors.errors
    errorMsg,       \* Node.errorMsg of every node
    inferredType,   \* Expr.inferredType of every Expr node
    isReturn,       \* Stmt.isReturn of every statement
    moduleBody,     \* node.body of the Python module handed to Parser.visit_Module
    body,           \* visit_Module's list body, one result per visited item
    parserErrors,   \* Parser.errors
    tree,           \* what Compiler.parse returned
    mode,           \* what main has read of args.mode so far
    order           \* the nodes a recording Visitor's callbacks were invoked on

\* What the parser writes.
pvars == <<moduleBody, body, parserErrors, tree>>
\* What the checker never touches.
outside == <<pvars, mode, order>>

vars == <<program, status, runs, stack, symbolTables, expReturnType, errors,
          programErrors, errorMsg, inferredType, isReturn, outside>>

Node(path) == Walk(program, path)
Root == <<>>
AllPaths == PathsUnder(program, Root)
ExprPaths == {p \in AllPaths : Node(p).kind \in ExprKinds}
StmtPaths == {p \in AllPaths : Node(p).kind \in StmtKinds}

\* TypeChecker.currentClass: no class is ever entered in this subset.
currentClass == PyNone
\* TypeChecker.addErrors: set once, never cleared.
addErrors == TRUE

(***************************************************************************)
(* Frames of the call stack.                                               *)
(***************************************************************************)
Frame(pc, node) ==
    [pc |-> pc, node |-> node, i |-> 1, hasReturn |-> FALSE, message |-> ""]

\* A pending call self.visit(node).
VisitCall(node) == Frame("visit", node)
\* A pending call self.addError(node, message).
AddErrorCall(node, message) == [Frame("addError", node) EXCEPT !.message = message]

Top == Head(stack)
TopIs(pc) == status = "checking" /\ stack # <<>> /\ Top.pc = pc

\* The running callback returns.
Return == Tail(stack)
\* The running callback makes calls (run first to last), then goes on as frame.
CallThen(calls, frame) == calls \o <<frame>> \o Tail(stack)
\* The running callback makes calls (run first to last), then returns.
CallReturn(calls) == calls \o Tail(stack)

(***************************************************************************)
(* Symbol table lookups.  Each table is a defaultdict(lambda: None): a     *)
(* subscript read of a missing key inserts the key with value None.        *)
(***************************************************************************)
Subscript(table, var) == IF var \in DOMAIN table THEN table[var] ELSE PyNone
Touched(table, var) == IF var \in DOMAIN table THEN table ELSE table @@ (var :> PyNone)

enterScope(tables) == Append(tables, <<>>)
exitScope(tables) == SubSeq(tables, 1, Len(tables) - 1)

RECURSIVE Lookup(_, _, _)
Lookup(tables, k, var) ==
    IF k = 0 THEN PyNone
    ELSE IF var \in DOMAIN tables[k] THEN tables[k][var]
    ELSE Lookup(tables, k - 1, var)

getType(tables, var) == Lookup(tables, Len(tables), var)
getLocalType(tables, var) == Lookup(Tail(tables), Len(tables) - 1, var)

getGlobal(tables, var) == Subscript(tables[1], var)
AfterGetGlobal(tables, var) == [tables EXCEPT ![1] = Touched(@, var)]

addType(tables, var, t) ==
    [tables EXCEPT ![Len(tables)] = [v \in DOMAIN @ \cup {var} |-> IF v = var THEN t ELSE @[v]]]

defInCurrentScope(tables, var) == Subscript(tables[Len(tables)], var) # PyNone
AfterDefInCurrentScope(tables, var) == [tables EXCEPT ![Len(tables)] = Touched(@, var)]

(***************************************************************************)
(* Error handling.                                                         *)
(***************************************************************************)
\* The message text with the node's location appended.
Message(node, message) == [message |-> message, location |-> node]
CompilerError(location, message) == [location |-> location, message |-> message]

\* addError without the test of node.errorMsg: every call records.
AddErrorEveryCall ==
    /\ TopIs("addError")
    /\ stack' = Return
    /\ LET message == Message(Top.node, Top.message)
       IN  /\ errorMsg' = [errorMsg EXCEPT ![Top.node] = message]
           /\ programErrors' = Append(programErrors, CompilerError(Top.node, message))
           /\ errors' = Append(errors, message)
    /\ UNCHANGED <<program, status, runs, symbolTables, expReturnType, inferredType, isReturn>>
    /\ UNCHANGED outside

\* addError that keeps the message on the node and in the checker's list
\* and leaves Program.errors alone.
AddErrorUnlisted ==
    /\ TopIs("addError")
    /\ stack' = Return
    /\ IF addErrors /\ errorMsg[Top.node] = PyNone
       THEN LET message == Message(Top.node, Top.message)
            IN  /\ errorMsg' = [errorMsg EXCEPT ![Top.node] = message]
                /\ errors' = Append(errors, message)
                /\ UNCHANGED programErrors
       ELSE UNCHANGED <<errorMsg, programErrors, errors>>
    /\ UNCHANGED <<program, status, runs, symbolTables, expReturnType, inferredType, isReturn>>
    /\ UNCHANGED outside

\* TypeChecker.addError: one message per node.
AddError ==
    /\ TopIs("addError")
    /\ stack' = Return
    /\ IF addErrors /\ errorMsg[Top.node] = PyNone
       THEN LET message == Message(Top.node, Top.message)
            IN  /\ errorMsg' = [errorMsg EXCEPT ![Top.node] = message]
                /\ programErrors' = Append(programErrors, CompilerError(Top.node, message))
                /\ errors' = Append(errors, message)
       ELSE UNCHANGED <<errorMsg, programErrors, errors>>
    /\ UNCHANGED <<program, status, runs, symbolTables, expReturnType, inferredType, isReturn>>
    /\ UNCHANGED outside

(***************************************************************************)
(* Types.                                                                  *)
(***************************************************************************)
UnknownClass(className) ==
    className \notin {"<None>", "<Empty>"} /\ ~classExists(className)

\* TypeChecker.ClassType: the annotation's type, and the addError it makes.
ClassTypeOf(path) ==
    IF UnknownClass(Node(path).className) THEN ObjectType
    ELSE ClassValueType(Node(path).className)
ClassTypeCalls(path) ==
    IF UnknownClass(Node(path).className)
    THEN <<AddErrorCall(path, "Unknown class: " \o Node(path).className)>>
    ELSE <<>>

\* TypeChecker.TypedVar: visits its annotation.
TypedVarOf(path) == ClassTypeOf(Sub(path, "type"))
TypedVarCalls(path) == ClassTypeCalls(Sub(path, "type"))

\* TypeChecker.getSignature: the return type is visited first, then the parameters.
getSignature(path) ==
    FuncType([i \in 1..Len(Node(path).params) |-> TypedVarOf(Elem(path, "params", i))],
             ClassTypeOf(Sub(path, "returnType")))
getSignatureCalls(path) ==
    ClassTypeCalls(Sub(path, "returnType"))
    \o Flatten([i \in 1..Len(Node(path).params) |-> TypedVarCalls(Elem(path, "params", i))])

\* Declaration.getIdentifier
getIdentifier(path) ==
    IF Node(path).kind = "FuncDef" THEN Sub(path, "name")
    ELSE Sub(Sub(path, "var"), "identifier")

(***************************************************************************)
(* Initial state: a fresh Compiler and a freshly parsed tree.              *)
(***************************************************************************)
\* A print that takes a str.
BuiltinsPrintStr ==
    [name \in {"print", "input", "len", "__assert__", "printf"} |->
        CASE name = "print" -> FuncType(<<StrType>>, NoneType)
          [] name = "input" -> FuncType(<<>>, StrType)
          [] name = "len" -> FuncType(<<ObjectType>>, IntType)
          [] name = "__assert__" -> FuncType(<<BoolType>>, NoneType)
          [] name = "printf" -> FuncType(<<StrType, ObjectType>>, IntType)]

Builtins ==
    [name \in {"print", "input", "len", "__assert__", "printf"} |->
        CASE name = "print" -> FuncType(<<ObjectType>>, NoneType)
          [] name = "input" -> FuncType(<<>>, StrType)
          [] name = "len" -> FuncType(<<ObjectType>>, IntType)
          [] name = "__assert__" -> FuncType(<<BoolType>>, NoneType)
          [] name = "printf" -> FuncType(<<StrType, ObjectType>>, IntType)]

Init ==
    /\ program \in Programs
    /\ status = "idle"
    /\ runs = 0
    /\ stack = <<>>
    /\ symbolTables = <<Builtins>>
    /\ expReturnType = PyNone
    /\ errors = <<>>
    /\ programErrors = <<>>
    /\ errorMsg = [p \in AllPaths |-> PyNone]
    /\ inferredType = [p \in ExprPaths |-> PyNone]
    /\ isReturn = [p \in StmtPaths |-> Node(p).kind = "ReturnStmt"]
    \* the tree came out of a parse without errors
    /\ moduleBody = program.declarations \o program.statements
    /\ body = moduleBody
    /\ parserErrors = <<>>
    /\ tree = program
    /\ mode = PyNone
    /\ order = <<>>

(***************************************************************************)
(* The driver.                                                             *)
(***************************************************************************)
\* Compiler.typecheck(ast): self.typechecker.visit(ast)
Typecheck ==
    /\ status \in {"idle", "returned"}
    /\ runs < MaxRuns
    /\ runs' = runs + 1
    /\ status' = "checking"
    /\ stack' = <<VisitCall(Root)>>
    /\ UNCHANGED <<program, symbolTables, expReturnType, errors, programErrors,
                   errorMsg, inferredType, isReturn>>
    /\ UNCHANGED outside

\* Compiler.typecheck(ast): return ast
TypecheckReturn ==
    /\ status = "checking"
    /\ stack = <<>>
    /\ status' = "returned"
    /\ UNCHANGED <<program, runs, stack, symbolTables, expReturnType, errors,
                   programErrors, errorMsg, inferredType, isReturn>>
    /\ UNCHANGED outside

(***************************************************************************)
(* Dispatch.                                                               *)
(***************************************************************************)
\* ReturnStmt.postorder and preorder visit the value, if there is one.
ReturnStmtChildren(path) ==
    IF Node(path).value = PyNone THEN <<>> ELSE <<Sub(path, "value")>>

\* The children node.postorder visits before the node's own callback.
PostorderChildren(path) ==
    LET n == Node(path)
    IN  CASE n.kind = "VarDef" -> <<Sub(path, "value")>>
          [] n.kind = "CallExpr" -> ElemsOf(n, path, "args")
          [] n.kind = "ReturnStmt" -> ReturnStmtChildren(path)
          [] n.kind \in {"Program", "FuncDef", "TypedVar", "ClassType"} -> <<>>
          [] OTHER -> Fields(n, path)

\* TypeChecker.visit: Program and FuncDef are dispatched to their callback,
\* every other node through postorder.
Visit ==
    /\ TopIs("visit")
    /\ LET path == Top.node
           callback == Frame(Node(path).kind, path)
       IN  stack' = IF Node(path).kind \in {"Program", "FuncDef"}
                    THEN CallReturn(<<callback>>)
                    ELSE CallReturn([i \in 1..Len(PostorderChildren(path)) |->
                                        VisitCall(PostorderChildren(path)[i])]
                                    \o <<callback>>)
    /\ UNCHANGED <<program, status, runs, symbolTables, expReturnType, errors,
                   programErrors, errorMsg, inferredType, isReturn>>
    /\ UNCHANGED outside

(***************************************************************************)
(* TypeChecker.Program                                                     *)
(***************************************************************************)
\* First loop: bind every declaration of the module.
ProgramCollect ==
    /\ TopIs("Program")
    /\ Top.i <= Len(Node(Top.node).declarations)
    /\ LET d == Elem(Top.node, "declarations", Top.i)
           identifier == getIdentifier(d)
           name == Node(identifier).name
           duplicate == defInCurrentScope(symbolTables, name) \/ classExists(name)
           t == IF Node(d).kind = "FuncDef" THEN getSignature(d)
                ELSE TypedVarOf(Sub(d, "var"))
           calls == (IF duplicate
                     THEN <<AddErrorCall(identifier,
                                "Duplicate declaration of identifier: " \o name)>>
                     ELSE <<>>)
                    \o (IF Node(d).kind = "FuncDef" THEN getSignatureCalls(d)
                        ELSE TypedVarCalls(Sub(d, "var")))
       IN  /\ symbolTables' = addType(AfterDefInCurrentScope(symbolTables, name), name, t)
           /\ stack' = CallThen(calls, [Top EXCEPT !.i = @ + 1])
    /\ UNCHANGED <<program, status, runs, expReturnType, errors, programErrors,
                   errorMsg, inferredType, isReturn>>
    /\ UNCHANGED outside

\* The first loop is over: go on to the second.
ProgramCollected ==
    /\ TopIs("Program")
    /\ Top.i = Len(Node(Top.node).declarations) + 1
    /\ stack' = CallThen(<<>>, [Top EXCEPT !.pc = "Program.declarations", !.i = 1])
    /\ UNCHANGED <<program, status, runs, symbolTables, expReturnType, errors,
                   programErrors, errorMsg, inferredType, isReturn>>
    /\ UNCHANGED outside

\* Second loop: visit every declaration whose identifier has no error.
ProgramDeclarations ==
    /\ TopIs("Program.declarations")
    /\ Top.i <= Len(Node(Top.node).declarations)
    /\ LET d == Elem(Top.node, "declarations", Top.i)
       IN  stack' = CallThen(IF errorMsg[getIdentifier(d)] # PyNone THEN <<>>
                             ELSE <<VisitCall(d)>>,
                             [Top EXCEPT !.i = @ + 1])
    /\ UNCHANGED <<program, status, runs, symbolTables, expReturnType, errors,
                   programErrors, errorMsg, inferredType, isReturn>>
    /\ UNCHANGED outside

\* After the declarations: return if any error was recorded.
ProgramGate ==
    /\ TopIs("Program.declarations")
    /\ Top.i = Len(Node(Top.node).declarations) + 1
    /\ stack' = IF Len(errors) > 0 THEN Return
                ELSE CallThen(<<>>, [Top EXCEPT !.pc = "Program.statements", !.i = 1])
    /\ UNCHANGED <<program, status, runs, symbolTables, expReturnType, errors,
                   programErrors, errorMsg, inferredType, isReturn>>
    /\ UNCHANGED outside

\* Third loop: visit every statement of the module.
ProgramStatements ==
    /\ TopIs("Program.statements")
    /\ stack' = IF Top.i <= Len(Node(Top.node).statements)
                THEN CallThen(<<VisitCall(Elem(Top.node, "statements", Top.i))>>,
                              [Top EXCEPT !.i = @ + 1])
                ELSE Return
    /\ UNCHANGED <<program, status, runs, symbolTables, expReturnType, errors,
                   programErrors, errorMsg, inferredType, isReturn>>
    /\ UNCHANGED outside


(***************************************************************************)
(* TypeChecker.VarDef                                                      *)
(***************************************************************************)
VarDefCallback ==
    /\ TopIs("VarDef")
    /\ LET node == Top.node
           annotationType == TypedVarOf(Sub(node, "var"))
           valueType == inferredType[Sub(node, "value")]
       IN  stack' = CallReturn(
                TypedVarCalls(Sub(node, "var"))
                \o (IF ~canAssign(valueType, annotationType)
                    THEN <<AddErrorCall(node, "Expected " \o TypeStr(annotationType)
                                              \o ", got " \o TypeStr(valueType))>>
                    ELSE <<>>))
    /\ UNCHANGED <<program, status, runs, symbolTables, expReturnType, errors,
                   programErrors, errorMsg, inferredType, isReturn>>
    /\ UNCHANGED outside

(***************************************************************************)
(* TypeChecker.FuncDef                                                     *)
(***************************************************************************)
\* The method branch's test of the self parameter.
MissingSelf(path, funcType) ==
    \/ Len(Node(path).params) = 0
    \/ Node(Sub(Elem(path, "params", 1), "identifier")).name # "self"
    \/ ~IsValueType(funcType.parameters[1])
    \/ currentClass = PyNone
    \/ funcType.parameters[1].className # currentClass

\* Entry: a new scope, the signature, the function's own name.
FuncDefEnter ==
    /\ TopIs("FuncDef")
    /\ LET node == Top.node
           identifier == getIdentifier(node)
           funcName == Node(identifier).name
           funcType == getSignature(node)
           entered == enterScope(symbolTables)
       IN  /\ expReturnType' = funcType.returnType
           /\ IF ~Node(node).isMethod
              THEN IF classExists(funcName)
                   THEN /\ symbolTables' = entered
                        /\ stack' = CallReturn(getSignatureCalls(node) \o
                               <<AddErrorCall(identifier,
                                    "Functions cannot shadow classes: " \o funcName)>>)
                   ELSE IF defInCurrentScope(entered, funcName)
                   THEN /\ symbolTables' = AfterDefInCurrentScope(entered, funcName)
                        /\ stack' = CallReturn(getSignatureCalls(node) \o
                               <<AddErrorCall(identifier,
                                    "Function redeclared: " \o funcName)>>)
                   ELSE /\ symbolTables' = addType(entered, funcName, funcType)
                        /\ stack' = CallThen(getSignatureCalls(node),
                                             [Top EXCEPT !.pc = "FuncDef.params"])
              ELSE IF MissingSelf(node, funcType)
                   THEN /\ symbolTables' = entered
                        /\ stack' = CallReturn(getSignatureCalls(node) \o
                               <<AddErrorCall(identifier,
                                    "Missing self param in method: " \o funcName)>>)
                   ELSE /\ symbolTables' = entered
                        /\ stack' = CallThen(getSignatureCalls(node),
                                             [Top EXCEPT !.pc = "FuncDef.params"])
    /\ UNCHANGED <<program, status, runs, errors, programErrors, errorMsg,
                   inferredType, isReturn>>
    /\ UNCHANGED outside

\* Loop over the parameters, then on to the local declarations.
FuncDefParams ==
    /\ TopIs("FuncDef.params")
    /\ IF Top.i <= Len(Node(Top.node).params)
       THEN LET p == Elem(Top.node, "params", Top.i)
                t == TypedVarOf(p)
                pName == Node(Sub(p, "identifier")).name
                duplicate == defInCurrentScope(symbolTables, pName) \/ classExists(pName)
            IN  /\ symbolTables' =
                      IF duplicate THEN AfterDefInCurrentScope(symbolTables, pName)
                      ELSE IF t # PyNone THEN addType(symbolTables, pName, t)
                      ELSE AfterDefInCurrentScope(symbolTables, pName)
                /\ stack' = CallThen(
                      TypedVarCalls(p)
                      \o (IF duplicate
                          THEN <<AddErrorCall(Sub(p, "identifier"),
                                     "Duplicate parameter name: " \o pName)>>
                          ELSE <<>>),
                      [Top EXCEPT !.i = @ + 1])
       ELSE /\ stack' = CallThen(<<>>, [Top EXCEPT !.pc = "FuncDef.collect", !.i = 1])
            /\ UNCHANGED symbolTables
    /\ UNCHANGED <<program, status, runs, expReturnType, errors, programErrors,
                   errorMsg, inferredType, isReturn>>
    /\ UNCHANGED outside

\* First loop over the local declarations: bind each that is no duplicate.
FuncDefCollect ==
    /\ TopIs("FuncDef.collect")
    /\ IF Top.i <= Len(Node(Top.node).declarations)
       THEN LET d == Elem(Top.node, "declarations", Top.i)
                identifier == getIdentifier(d)
                name == Node(identifier).name
                duplicate == defInCurrentScope(symbolTables, name) \/ classExists(name)
                t == IF Node(d).kind = "FuncDef" THEN getSignature(d)
                     ELSE TypedVarOf(Sub(d, "var"))
            IN  /\ symbolTables' =
                      IF duplicate THEN AfterDefInCurrentScope(symbolTables, name)
                      ELSE addType(symbolTables, name, t)
                /\ stack' = CallThen(
                      IF duplicate
                      THEN <<AddErrorCall(identifier,
                                 "Duplicate declaration of identifier: " \o name)>>
                      ELSE IF Node(d).kind = "FuncDef" THEN getSignatureCalls(d)
                      ELSE TypedVarCalls(Sub(d, "var")),
                      [Top EXCEPT !.i = @ + 1])
       ELSE /\ stack' = CallThen(<<>>, [Top EXCEPT !.pc = "FuncDef.declarations", !.i = 1])
            /\ UNCHANGED symbolTables
    /\ UNCHANGED <<program, status, runs, expReturnType, errors, programErrors,
                   errorMsg, inferredType, isReturn>>
    /\ UNCHANGED outside

\* Second loop over the local declarations: visit each, restoring
\* expReturnType after each visit.
FuncDefDeclarations ==
    /\ TopIs("FuncDef.declarations")
    /\ LET rType == getSignature(Top.node).returnType
       IN  /\ expReturnType' = IF Top.i > 1 THEN rType ELSE expReturnType
           /\ stack' = IF Top.i <= Len(Node(Top.node).declarations)
                       THEN CallThen(<<VisitCall(Elem(Top.node, "declarations", Top.i))>>,
                                     [Top EXCEPT !.i = @ + 1])
                       ELSE CallThen(<<>>, [Top EXCEPT !.pc = "FuncDef.statements", !.i = 1])
    /\ UNCHANGED <<program, status, runs, symbolTables, errors, programErrors,
                   errorMsg, inferredType, isReturn>>
    /\ UNCHANGED outside

\* Loop over the statements, noting the return-guaranteeing ones; then the
\* missing-return check, and the scope is left.
\* The expected return type left as the function set it.
KeptReturnType == expReturnType

\* The expected return type after a function: none, as outside any function.
ResetReturnType == PyNone

\* The report made for every function that lacks a return, whatever it returns.
MissingReturnAlways(node, hasReturn) ==
    IF ~hasReturn
    THEN <<AddErrorCall(getIdentifier(node),
               "Expected return statement of type " \o TypeStr(expReturnType))>>
    ELSE <<>>

\* The report after the statements: no statement had isReturn, and None
\* cannot be assigned to the expected return type.
MissingReturnCalls(node, hasReturn) ==
    IF ~hasReturn /\ ~canAssign(NoneType, expReturnType)
    THEN <<AddErrorCall(getIdentifier(node),
               "Expected return statement of type " \o TypeStr(expReturnType))>>
    ELSE <<>>

FuncDefStatements ==
    /\ TopIs("FuncDef.statements")
    /\ LET node == Top.node
           hasReturn == Top.hasReturn
                        \/ (Top.i > 1 /\ isReturn[Elem(node, "statements", Top.i - 1)])
       IN  IF Top.i <= Len(Node(node).statements)
           THEN /\ stack' = CallThen(<<VisitCall(Elem(node, "statements", Top.i))>>,
                                     [Top EXCEPT !.i = @ + 1, !.hasReturn = hasReturn])
                /\ UNCHANGED <<symbolTables, expReturnType>>
           ELSE /\ stack' = CallReturn(MissingReturnCalls(node, hasReturn))
                /\ expReturnType' = ResetReturnType
                /\ symbolTables' = exitScope(symbolTables)
    /\ UNCHANGED <<program, status, runs, errors, programErrors, errorMsg,
                   inferredType, isReturn>>
    /\ UNCHANGED outside


(***************************************************************************)
(* Statements.                                                             *)
(***************************************************************************)
\* The target test made against every scope of the stack instead of the innermost.
TargetUndefinedAnywhere(path, i) ==
    LET t == Elem(path, "targets", i)
    IN  Node(t).kind = "Identifier" /\ getType(symbolTables, Node(t).name) = PyNone

\* Whether AssignStmt's loop stops at target i: the target is an Identifier
\* not defined in the current scope, or the value cannot be assigned to it.
TargetUndefined(path, i) ==
    LET t == Elem(path, "targets", i)
    IN  Node(t).kind = "Identifier" /\ ~defInCurrentScope(symbolTables, Node(t).name)
TargetMismatch(path, i) ==
    ~canAssign(inferredType[Sub(path, "value")], inferredType[Elem(path, "targets", i)])

\* The first target the loop stops at, 0 if it runs to its end.
FirstFailing(path) ==
    LET failing == {i \in 1..Len(Node(path).targets) :
                       TargetUndefined(path, i) \/ TargetMismatch(path, i)}
    IN  IF failing = {} THEN 0 ELSE CHOOSE i \in failing : \A j \in failing : i <= j

\* The tables after defInCurrentScope was asked about targets 1..k.
RECURSIVE AfterTargets(_, _, _)
AfterTargets(tables, path, k) ==
    IF k = 0 THEN tables
    ELSE LET t == Elem(path, "targets", k)
             before == AfterTargets(tables, path, k - 1)
         IN  IF Node(t).kind = "Identifier"
             THEN AfterDefInCurrentScope(before, Node(t).name)
             ELSE before

\* The two reports of the loop body, for target k.
UndefinedCall(path, k) ==
    LET t == Elem(path, "targets", k)
    IN  AddErrorCall(t, "Identifier not defined in current scope: " \o Node(t).name)
MismatchCall(path, k) ==
    LET t == Elem(path, "targets", k)
    IN  AddErrorCall(path, "Expected " \o TypeStr(inferredType[t]) \o ", got "
                           \o TypeStr(inferredType[Sub(path, "value")]))

\* The loop body without its first return: both tests report.
AssignStmtBothCalls(path, k) ==
    (IF TargetUndefined(path, k) THEN <<UndefinedCall(path, k)>> ELSE <<>>)
    \o (IF TargetMismatch(path, k) THEN <<MismatchCall(path, k)>> ELSE <<>>)

\* The addError call made for the target the loop stops at: the first test
\* that fails reports, and the handler returns.
AssignStmtCalls(path, k) ==
    IF TargetUndefined(path, k) THEN <<UndefinedCall(path, k)>>
    ELSE <<MismatchCall(path, k)>>

AssignStmtCallback ==
    /\ TopIs("AssignStmt")
    /\ LET node == Top.node
           k == FirstFailing(node)
       IN  IF k = 0
           THEN /\ symbolTables' = AfterTargets(symbolTables, node, Len(Node(node).targets))
                /\ stack' = Return
           ELSE /\ symbolTables' = AfterTargets(symbolTables, node, k)
                /\ stack' = CallReturn(AssignStmtCalls(node, k))
    /\ UNCHANGED <<program, status, runs, expReturnType, errors, programErrors,
                   errorMsg, inferredType, isReturn>>
    /\ UNCHANGED outside

\* A condition that does not type to bool: the error IfStmt and WhileStmt report.
ConditionCalls(path) ==
    <<AddErrorCall(Sub(path, "condition"),
          "Expected bool, got " \o TypeStr(inferredType[Sub(path, "condition")]))>>

AnyIsReturn(paths) == \E i \in DOMAIN paths : isReturn[paths[i]]

IfStmtCallback ==
    /\ TopIs("IfStmt")
    /\ LET node == Top.node
       IN  IF inferredType[Sub(node, "condition")] # BoolType
           THEN /\ stack' = CallReturn(ConditionCalls(node))
                /\ UNCHANGED isReturn
           ELSE /\ stack' = Return
                /\ isReturn' = [isReturn EXCEPT ![node] =
                        AnyIsReturn(ElemsOf(Node(node), node, "thenBody"))
                        /\ AnyIsReturn(ElemsOf(Node(node), node, "elseBody"))]
    /\ UNCHANGED <<program, status, runs, symbolTables, expReturnType, errors,
                   programErrors, errorMsg, inferredType>>
    /\ UNCHANGED outside

WhileStmtCallback ==
    /\ TopIs("WhileStmt")
    /\ LET node == Top.node
       IN  IF inferredType[Sub(node, "condition")] # BoolType
           THEN /\ stack' = CallReturn(ConditionCalls(node))
                /\ UNCHANGED isReturn
           ELSE /\ stack' = Return
                /\ isReturn' = [isReturn EXCEPT ![node] =
                        @ \/ AnyIsReturn(ElemsOf(Node(node), node, "body"))]
    /\ UNCHANGED <<program, status, runs, symbolTables, expReturnType, errors,
                   programErrors, errorMsg, inferredType>>
    /\ UNCHANGED outside

ReturnStmtCallback ==
    /\ TopIs("ReturnStmt")
    /\ LET node == Top.node
           valueType == IF Node(node).value = PyNone THEN NoneType
                        ELSE inferredType[Sub(node, "value")]
       IN  stack' = CallReturn(
                IF expReturnType = PyNone
                THEN <<AddErrorCall(node, "Return statement outside of function definition")>>
                ELSE IF ~canAssign(valueType, expReturnType)
                THEN <<AddErrorCall(node, "Expected " \o TypeStr(expReturnType)
                                          \o ", got " \o TypeStr(valueType))>>
                ELSE <<>>)
    /\ UNCHANGED <<program, status, runs, symbolTables, expReturnType, errors,
                   programErrors, errorMsg, inferredType, isReturn>>
    /\ UNCHANGED outside

\* Visitor.ExprStmt: the checker does not override it.
ExprStmtCallback ==
    /\ TopIs("ExprStmt")
    /\ stack' = Return
    /\ UNCHANGED <<program, status, runs, symbolTables, expReturnType, errors,
                   programErrors, errorMsg, inferredType, isReturn>>
    /\ UNCHANGED outside

(***************************************************************************)
(* Expressions.                                                            *)
(***************************************************************************)
\* A typing that lets == and != compare two operands of any one type.
BinaryExprTypeLoose(operator, leftType, rightType) ==
    CASE operator = "+" ->
            IF leftType = rightType /\ leftType \in {StrType, IntType}
            THEN leftType ELSE PyNone
      [] operator \in {"-", "*", "//", "%"} ->
            IF leftType = IntType /\ rightType = IntType THEN IntType ELSE PyNone
      [] operator \in {"<", "<=", ">", ">="} ->
            IF leftType = IntType /\ rightType = IntType THEN BoolType ELSE PyNone
      [] operator \in {"==", "!="} ->
            IF leftType = rightType THEN BoolType ELSE PyNone
      [] operator = "is" ->
            IF leftType \notin static_types /\ rightType \notin static_types
            THEN BoolType ELSE PyNone
      [] operator \in {"and", "or"} ->
            IF leftType = BoolType /\ rightType = BoolType THEN BoolType ELSE PyNone
      [] OTHER -> ObjectType

\* The type BinaryExpr gives the node, PyNone where it reports binopError
\* and leaves inferredType as it was.
BinaryExprType(operator, leftType, rightType) ==
    CASE operator = "+" ->
            IF leftType = rightType /\ leftType \in {StrType, IntType}
            THEN leftType ELSE PyNone
      [] operator \in {"-", "*", "//", "%"} ->
            IF leftType = IntType /\ rightType = IntType THEN IntType ELSE PyNone
      [] operator \in {"<", "<=", ">", ">="} ->
            IF leftType = IntType /\ rightType = IntType THEN BoolType ELSE PyNone
      [] operator \in {"==", "!="} ->
            IF leftType = rightType /\ leftType \in static_types
            THEN BoolType ELSE PyNone
      [] operator = "is" ->
            IF leftType \notin static_types /\ rightType \notin static_types
            THEN BoolType ELSE PyNone
      [] operator \in {"and", "or"} ->
            IF leftType = BoolType /\ rightType = BoolType THEN BoolType ELSE PyNone
      [] OTHER -> ObjectType

BinaryExprCallback ==
    /\ TopIs("BinaryExpr")
    /\ LET node == Top.node
           leftType == inferredType[Sub(node, "left")]
           rightType == inferredType[Sub(node, "right")]
           t == BinaryExprType(Node(node).operator, leftType, rightType)
       IN  IF t # PyNone
           THEN /\ inferredType' = [inferredType EXCEPT ![node] = t]
                /\ stack' = Return
           ELSE /\ UNCHANGED inferredType
                \* binopError
                /\ stack' = CallReturn(<<AddErrorCall(node,
                       "Cannot use operator " \o Node(node).operator \o " on types "
                       \o TypeStr(leftType) \o " and " \o TypeStr(rightType))>>)
    /\ UNCHANGED <<program, status, runs, symbolTables, expReturnType, errors,
                   programErrors, errorMsg, isReturn>>
    /\ UNCHANGED outside

\* The type UnaryExpr gives the node, PyNone where it reports an error and
\* leaves inferredType as it was.
UnaryExprType(operator, operandType) ==
    CASE operator = "-" -> IF operandType = IntType THEN IntType ELSE PyNone
      [] operator = "not" -> IF operandType = BoolType THEN BoolType ELSE PyNone
      [] OTHER -> ObjectType

UnaryExprCallback ==
    /\ TopIs("UnaryExpr")
    /\ LET node == Top.node
           operandType == inferredType[Sub(node, "operand")]
           t == UnaryExprType(Node(node).operator, operandType)
       IN  IF t # PyNone
           THEN /\ inferredType' = [inferredType EXCEPT ![node] = t]
                /\ stack' = Return
           ELSE /\ UNCHANGED inferredType
                /\ stack' = CallReturn(<<AddErrorCall(node,
                       "Expected " \o (IF Node(node).operator = "-" THEN "int" ELSE "bool")
                       \o ", got " \o TypeStr(operandType))>>)
    /\ UNCHANGED <<program, status, runs, symbolTables, expReturnType, errors,
                   programErrors, errorMsg, isReturn>>
    /\ UNCHANGED outside

\* A CallExpr that checks the argument count only.
ArgumentCallsSkipped(node, t, offset) == <<>>

\* The addError calls of CallExpr's argument loop: one per argument that
\* cannot be assigned to its parameter (offset 1 skips a constructor's receiver).
ArgumentCalls(node, t, offset) ==
    Flatten([i \in 1..(Len(t.parameters) - offset) |->
        LET argType == inferredType[Elem(node, "args", i)]
        IN  IF ~canAssign(argType, t.parameters[i + offset])
            THEN <<AddErrorCall(node, "Expected " \o TypeStr(t.parameters[i + offset])
                                      \o ", got " \o TypeStr(argType))>>
            ELSE <<>>])

CallExprCallback ==
    /\ TopIs("CallExpr")
    /\ LET node == Top.node
           function == Sub(node, "function")
           fname == Node(function).name
           nargs == Len(Node(node).args)
       IN  IF classExists(fname)
           THEN LET t == getMethodInit(fname)
                IN  /\ stack' = CallReturn(
                          IF Len(t.parameters) # nargs + 1
                          THEN <<AddErrorCall(node, "Expected " \o ToString(Len(t.parameters) - 1)
                                     \o " args, got " \o ToString(nargs))>>
                          ELSE ArgumentCalls(node, t, 1))
                    /\ inferredType' = [inferredType EXCEPT ![node] = ClassValueType(fname),
                                                            ![function] = t]
           ELSE LET t == getType(symbolTables, fname)
                IN  IF ~IsFuncType(t)
                    THEN /\ stack' = CallReturn(
                               <<AddErrorCall(node, "Not a function: " \o fname)>>)
                         /\ inferredType' = [inferredType EXCEPT ![node] = ObjectType]
                    ELSE /\ stack' = CallReturn(
                               IF Len(t.parameters) # nargs
                               THEN <<AddErrorCall(node, "Expected " \o ToString(Len(t.parameters))
                                          \o " args, got " \o ToString(nargs))>>
                               ELSE ArgumentCalls(node, t, 0))
                         /\ inferredType' = [inferredType EXCEPT ![node] = t.returnType,
                                                                 ![function] = t]
    /\ UNCHANGED <<program, status, runs, symbolTables, expReturnType, errors,
                   programErrors, errorMsg, isReturn>>
    /\ UNCHANGED outside

IdentifierCallback ==
    /\ TopIs("Identifier")
    /\ LET node == Top.node
           name == Node(node).name
           global == expReturnType = PyNone /\ currentClass = PyNone
           varType == IF global THEN getGlobal(symbolTables, name)
                      ELSE getType(symbolTables, name)
       IN  /\ symbolTables' = IF global THEN AfterGetGlobal(symbolTables, name)
                              ELSE symbolTables
           /\ IF varType # PyNone /\ IsValueType(varType)
              THEN /\ inferredType' = [inferredType EXCEPT ![node] = varType]
                   /\ stack' = Return
              ELSE /\ inferredType' = [inferredType EXCEPT ![node] = ObjectType]
                   /\ stack' = CallReturn(<<AddErrorCall(node, "Unknown identifier: " \o name)>>)
    /\ UNCHANGED <<program, status, runs, expReturnType, errors, programErrors,
                   errorMsg, isReturn>>
    /\ UNCHANGED outside

\* With a condition that is not bool, IfExpr calls addError with one
\* argument: Python raises TypeError, which nothing in the checker or in
\* Compiler.typecheck catches.
IfExprCallback ==
    /\ TopIs("IfExpr")
    /\ LET node == Top.node
       IN  IF inferredType[Sub(node, "condition")] # BoolType
           THEN /\ status' = "raised"
                /\ stack' = <<>>
                /\ UNCHANGED inferredType
           ELSE /\ inferredType' = [inferredType EXCEPT ![node] =
                        join(inferredType[Sub(node, "thenExpr")],
                             inferredType[Sub(node, "elseExpr")])]
                /\ stack' = Return
                /\ UNCHANGED status
    /\ UNCHANGED <<program, runs, symbolTables, expReturnType, errors, programErrors,
                   errorMsg, isReturn>>
    /\ UNCHANGED outside

\* The type each literal callback sets.
LiteralType(kind) ==
    CASE kind = "BooleanLiteral" -> BoolType
      [] kind = "IntegerLiteral" -> IntType
      [] kind = "NoneLiteral" -> NoneType
      [] kind = "StringLiteral" -> StrType

LiteralCallback(kind) ==
    /\ TopIs(kind)
    /\ inferredType' = [inferredType EXCEPT ![Top.node] = LiteralType(kind)]
    /\ stack' = Return
    /\ UNCHANGED <<program, status, runs, symbolTables, expReturnType, errors,
                   programErrors, errorMsg, isReturn>>
    /\ UNCHANGED outside

BooleanLiteralCallback == LiteralCallback("BooleanLiteral")
IntegerLiteralCallback == LiteralCallback("IntegerLiteral")
NoneLiteralCallback == LiteralCallback("NoneLiteral")
StringLiteralCallback == LiteralCallback("StringLiteral")

(***************************************************************************)
(* The specification.                                                      *)
(***************************************************************************)
(***************************************************************************)
(* The parser and main (compiler/parser.py, compiler/compiler.py,          *)
(* main.py).  An item of a module body that the parser translates is       *)
(* written as the node it is translated to; a class definition is the one  *)
(* item here that it does not translate.                                   *)
(***************************************************************************)
ClassDef == [kind |-> "ClassDef"]

InsertAt(seq, k, e) == SubSeq(seq, 1, k) \o <<e>> \o SubSeq(seq, k + 1, Len(seq))

\* The module bodies that parse to p, and those with one class definition
\* added at any place.
ModuleBodies(p) ==
    LET legal == p.declarations \o p.statements
    IN  {legal} \cup {InsertAt(legal, k, ClassDef) : k \in 0..Len(legal)}

\* main: compiler = Compiler(), before compiler.parse(infile).
MainInit ==
    /\ program \in Programs
    /\ moduleBody \in ModuleBodies(program)
    /\ body = <<>>
    /\ parserErrors = <<>>
    /\ tree = PyNone
    /\ status = "parsing"
    /\ mode = PyNone
    /\ order = <<>>
    /\ runs = 0
    /\ stack = <<>>
    /\ symbolTables = <<Builtins>>
    /\ expReturnType = PyNone
    /\ errors = <<>>
    /\ programErrors = <<>>
    /\ errorMsg = [p \in AllPaths |-> PyNone]
    /\ inferredType = [p \in ExprPaths |-> PyNone]
    /\ isReturn = [p \in StmtPaths |-> Node(p).kind = "ReturnStmt"]

\* Parser.visit on one item of the module body, inside visit_Module's list
\* comprehension: visit_ClassDef raises ParseError("Unsupported"), which
\* Parser.visit appends to the errors before it returns None.
ParserVisit ==
    /\ status = "parsing"
    /\ Len(body) < Len(moduleBody)
    /\ LET b == moduleBody[Len(body) + 1]
       IN  IF b.kind = "ClassDef"
           THEN /\ parserErrors' = Append(parserErrors, "Unsupported")
                /\ body' = Append(body, PyNone)
           ELSE /\ body' = Append(body, b)
                /\ UNCHANGED parserErrors
    /\ UNCHANGED <<program, status, runs, stack, symbolTables, expReturnType, errors,
                   programErrors, errorMsg, inferredType, isReturn, moduleBody, tree>>
    /\ UNCHANGED <<mode, order>>

\* The loop of visit_Module over the visited items: where it raises, or the
\* Program it builds.
RECURSIVE ModuleLoop(_, _, _, _, _)
ModuleLoop(b, i, declarations, statements, decl) ==
    IF i > Len(b)
    THEN [raised |-> FALSE, message |-> "", tree |-> Program(declarations, statements)]
    ELSE IF b[i].kind \in {"VarDef", "FuncDef"}
    THEN IF b[i].kind = "VarDef" /\ b[i].value.kind \notin LiteralKinds
         THEN [raised |-> TRUE, tree |-> PyNone,
               message |-> "Global variables can only be initialized with literals"]
         ELSE IF ~decl
         THEN [raised |-> TRUE, tree |-> PyNone,
               message |-> "All declarations must come before statements"]
         ELSE ModuleLoop(b, i + 1, Append(declarations, b[i]), statements, decl)
    ELSE IF b[i] = PyNone \/ b[i].kind \in StmtKinds
    THEN ModuleLoop(b, i + 1, declarations, Append(statements, b[i]), FALSE)
    ELSE [raised |-> TRUE, tree |-> PyNone, message |-> "Expected declaration or statement"]

\* The rest of Parser.visit_Module, and the Parser.visit around it that
\* catches its ParseError; Compiler.parse returns the result.
visit_Module ==
    /\ status = "parsing"
    /\ Len(body) = Len(moduleBody)
    /\ LET result == ModuleLoop(body, 1, <<>>, <<>>, TRUE)
       IN  /\ parserErrors' = IF result.raised
                              THEN Append(parserErrors, result.message)
                              ELSE parserErrors
           /\ tree' = result.tree
    /\ status' = "parsed"
    /\ UNCHANGED <<program, runs, stack, symbolTables, expReturnType, errors,
                   programErrors, errorMsg, inferredType, isReturn, moduleBody, body>>
    /\ UNCHANGED <<mode, order>>

\* main: parse errors, or no tree, end the run with an exception.
ParseFailed == Len(parserErrors) > 0 \/ tree = PyNone

MainParseErrors ==
    /\ status = "parsed"
    /\ ParseFailed
    /\ status' = "parse errors"
    /\ UNCHANGED <<program, runs, stack, symbolTables, expReturnType, errors,
                   programErrors, errorMsg, inferredType, isReturn, pvars>>
    /\ UNCHANGED <<mode, order>>

\* main: otherwise, with a mode other than parse, compiler.typecheck(tree).
\* A tree parsed without error is the program the body was built from.
MainTypecheck ==
    /\ status = "parsed"
    /\ ~ParseFailed
    /\ tree = program
    /\ mode' = "not parse"
    /\ runs' = runs + 1
    /\ status' = "checking"
    /\ stack' = <<VisitCall(Root)>>
    /\ UNCHANGED <<program, symbolTables, expReturnType, errors, programErrors,
                   errorMsg, inferredType, isReturn, pvars, order>>

\* main in mode parse: no check, the tree is printed as JSON.
MainParseOnly ==
    /\ status = "parsed"
    /\ ~ParseFailed
    /\ mode' = "parse"
    /\ status' = "printed"
    /\ UNCHANGED <<program, runs, stack, symbolTables, expReturnType, errors,
                   programErrors, errorMsg, inferredType, isReturn, pvars, order>>

\* A check that never finds an error.
TypecheckNeverFailed == FALSE

\* main: errors of the checker end the run with an exception.
TypecheckFailed == Len(errors) > 0

MainTypecheckErrors ==
    /\ status = "returned"
    /\ mode = "not parse"
    /\ TypecheckFailed
    /\ status' = "typecheck errors"
    /\ UNCHANGED <<program, runs, stack, symbolTables, expReturnType, errors,
                   programErrors, errorMsg, inferredType, isReturn, outside>>

\* main: the output step of the mode: the checked tree as JSON, or the
\* code the Python or the LLVM backend emits.
OutputOf(m) ==
    CASE m = "tc" -> "printed"
      [] m = "python" -> "emitted python"
      [] m = "llvm" -> "emitted llvm"

MainOutput ==
    /\ status = "returned"
    /\ mode = "not parse"
    /\ ~TypecheckFailed
    /\ \E m \in {"tc", "python", "llvm"} :
          /\ mode' = m
          /\ status' = OutputOf(m)
    /\ UNCHANGED <<program, runs, stack, symbolTables, expReturnType, errors,
                   programErrors, errorMsg, inferredType, isReturn, pvars, order>>

Next ==
    \/ Typecheck
    \/ TypecheckReturn
    \/ Visit
    \/ AddError
    \/ ProgramCollect
    \/ ProgramCollected
    \/ ProgramDeclarations
    \/ ProgramGate
    \/ ProgramStatements
    \/ VarDefCallback
    \/ FuncDefEnter
    \/ FuncDefParams
    \/ FuncDefCollect
    \/ FuncDefDeclarations
    \/ FuncDefStatements
    \/ AssignStmtCallback
    \/ IfStmtCallback
    \/ WhileStmtCallback
    \/ ReturnStmtCallback
    \/ ExprStmtCallback
    \/ BinaryExprCallback
    \/ UnaryExprCallback
    \/ CallExprCallback
    \/ IdentifierCallback
    \/ IfExprCallback
    \/ BooleanLiteralCallback
    \/ IntegerLiteralCallback
    \/ NoneLiteralCallback
    \/ StringLiteralCallback

Spec == Init /\ [][Next]_vars

\* One run of main on a module: parse, then check once.
MainNext ==
    \/ ParserVisit
    \/ visit_Module
    \/ MainParseErrors
    \/ MainTypecheck
    \/ MainParseOnly
    \/ MainTypecheckErrors
    \/ MainOutput
    \/ TypecheckReturn
    \/ Visit
    \/ AddError
    \/ ProgramCollect
    \/ ProgramCollected
    \/ ProgramDeclarations
    \/ ProgramGate
    \/ ProgramStatements
    \/ VarDefCallback
    \/ FuncDefEnter
    \/ FuncDefParams
    \/ FuncDefCollect
    \/ FuncDefDeclarations
    \/ FuncDefStatements
    \/ AssignStmtCallback
    \/ IfStmtCallback
    \/ WhileStmtCallback
    \/ ReturnStmtCallback
    \/ ExprStmtCallback
    \/ BinaryExprCallback
    \/ UnaryExprCallback
    \/ CallExprCallback
    \/ IdentifierCallback
    \/ IfExprCallback
    \/ BooleanLiteralCallback
    \/ IntegerLiteralCallback
    \/ NoneLiteralCallback
    \/ StringLiteralCallback

MainSpec == MainInit /\ [][MainNext]_vars

(***************************************************************************)
(* A Visitor that records the nodes its callbacks are invoked on, run on   *)
(* a ReturnStmt through each of the node's three entry points              *)
(* (compiler/visitor.py, compiler/astnodes/returnstmt.py).                 *)
(***************************************************************************)
VisitingTop(pc) == status = "visiting" /\ stack # <<>> /\ Top.pc = pc

\* The caller is about to call r.postorder(v), r.preorder(v) or r.visit(v).
EntryCall(r, method) == [Frame("call", r) EXCEPT !.message = method]

VisitorInit ==
    /\ program \in Programs
    /\ status = "visiting"
    /\ stack \in {<<EntryCall(r, method)>> :
                     r \in {q \in StmtPaths : Node(q).kind = "ReturnStmt"},
                     method \in {"postorder", "preorder", "visit"}}
    /\ runs = 0
    /\ symbolTables = <<Builtins>>
    /\ expReturnType = PyNone
    /\ errors = <<>>
    /\ programErrors = <<>>
    /\ errorMsg = [p \in AllPaths |-> PyNone]
    /\ inferredType = [p \in ExprPaths |-> PyNone]
    /\ isReturn = [p \in StmtPaths |-> Node(p).kind = "ReturnStmt"]
    /\ moduleBody = program.declarations \o program.statements
    /\ body = moduleBody
    /\ parserErrors = <<>>
    /\ tree = program
    /\ mode = PyNone
    /\ order = <<>>

VisitorFrame == <<program, status, runs, symbolTables, expReturnType, errors,
                  programErrors, errorMsg, inferredType, isReturn, pvars, mode>>

EntryStep ==
    /\ VisitingTop("call")
    /\ stack' = <<Frame(Top.message, Top.node), [Top EXCEPT !.pc = "called"]>>
    /\ UNCHANGED <<VisitorFrame, order>>

\* The calls of ReturnStmt.postorder with the callback first.
CallbackThenValue(r) ==
    <<Frame("callback", r)>>
    \o [i \in 1..Len(ReturnStmtChildren(r)) |-> Frame("Visitor.visit", ReturnStmtChildren(r)[i])]

\* ReturnStmt.postorder: visitor.visit(self.value), then visitor.ReturnStmt(self).
ReturnStmtPostorderCalls(r) ==
    [i \in 1..Len(ReturnStmtChildren(r)) |-> Frame("Visitor.visit", ReturnStmtChildren(r)[i])]
    \o <<Frame("callback", r)>>
\* ReturnStmt.preorder: visitor.ReturnStmt(self), then visitor.visit(self.value).
ReturnStmtPreorderCalls(r) ==
    <<Frame("callback", r)>>
    \o [i \in 1..Len(ReturnStmtChildren(r)) |-> Frame("Visitor.visit", ReturnStmtChildren(r)[i])]

ReturnStmtPostorder ==
    /\ VisitingTop("postorder")
    /\ stack' = CallReturn(ReturnStmtPostorderCalls(Top.node))
    /\ UNCHANGED <<VisitorFrame, order>>

ReturnStmtPreorder ==
    /\ VisitingTop("preorder")
    /\ stack' = CallReturn(ReturnStmtPreorderCalls(Top.node))
    /\ UNCHANGED <<VisitorFrame, order>>

\* Visitor.visit(node): node.visit(self).
VisitorVisit ==
    /\ VisitingTop("Visitor.visit")
    /\ stack' = CallReturn(<<Frame("visit", Top.node)>>)
    /\ UNCHANGED <<VisitorFrame, order>>

\* node.visit(visitor): the callback named after the node's kind.
NodeVisit ==
    /\ VisitingTop("visit")
    /\ stack' = CallReturn(<<Frame("callback", Top.node)>>)
    /\ UNCHANGED <<VisitorFrame, order>>

\* The callback of the recording Visitor.
VisitorCallback ==
    /\ VisitingTop("callback")
    /\ order' = Append(order, Top.node)
    /\ stack' = Return
    /\ UNCHANGED VisitorFrame

VisitorNext ==
    \/ EntryStep
    \/ ReturnStmtPostorder
    \/ ReturnStmtPreorder
    \/ VisitorVisit
    \/ NodeVisit
    \/ VisitorCallback

\* The checker's traversal and the recording Visitor's, side by side.
DispatchInit == Init \/ VisitorInit
DispatchNext == Next \/ VisitorNext
VisitorSpec == DispatchInit /\ [][DispatchNext]_vars


(***************************************************************************)
(* Reading the tree and the state: what the properties below speak of.     *)
(***************************************************************************)
IsPrefix(q, path) == Len(q) <= Len(path) /\ SubSeq(path, 1, Len(q)) = q

\* Nodes of the module's declarations, and of the module's statements.
InDeclarations(path) == path # <<>> /\ path[1].f = "declarations"
InStatements(path) == path # <<>> /\ path[1].f = "statements"

ModuleDeclaration(i) == Elem(Root, "declarations", i)
ModuleStatement(i) == Elem(Root, "statements", i)
NumDeclarations == Len(Node(Root).declarations)
NumStatements == Len(Node(Root).statements)

\* The diagnostics Program.errors holds for one node.
DiagnosticsOn(path) ==
    {k \in 1..Len(programErrors) : programErrors[k].location = path}

\* A call on the stack concerns a node of the subtree.
OnStack(path) == \E k \in 1..Len(stack) : IsPrefix(path, stack[k].node)

\* The checker has left a result in the subtree: a type or a message.
ResultUnder(path) ==
    \E q \in AllPaths :
        /\ IsPrefix(path, q)
        /\ \/ errorMsg[q] # PyNone
           \/ q \in ExprPaths /\ inferredType[q] # PyNone

\* An error was recorded on a node of the module's declarations.
DeclarationError == \E q \in AllPaths : InDeclarations(q) /\ errorMsg[q] # PyNone

\* The collection pass found the name of declaration d bound already.
DeclName(d) == Node(getIdentifier(d)).name
IsDuplicate(d) ==
    /\ errorMsg[getIdentifier(d)] # PyNone
    /\ errorMsg[getIdentifier(d)].message = "Duplicate declaration of identifier: " \o DeclName(d)

\* The first check of the tree, and its normal end.
FirstRun == runs = 1
FirstRunReturned == runs = 1 /\ status = "returned"

(***************************************************************************)
(* C1.  Only the first addError call on a node has an effect: a node that  *)
(* has a message keeps it, a call on such a node changes neither error     *)
(* list, and Program.errors never holds two diagnostics of one node.       *)
(***************************************************************************)
C1_MessageKept ==
    \A q \in DOMAIN errorMsg : errorMsg[q] # PyNone => errorMsg'[q] = errorMsg[q]
C1_RepeatedCallDropped ==
    (TopIs("addError") /\ errorMsg[Top.node] # PyNone)
        => UNCHANGED <<errorMsg, programErrors, errors>>
C1_OnePerNode ==
    \A j, k \in 1..Len(programErrors) :
        programErrors[j].location = programErrors[k].location => j = k

C1_FirstErrorOnly ==
    /\ []C1_OnePerNode
    /\ [][C1_MessageKept /\ C1_RepeatedCallDropped]_vars

\* A second call, with another message, is pending on a node that has one.
C1_Witness ==
    /\ TopIs("addError")
    /\ errorMsg[Top.node] # PyNone
    /\ errorMsg[Top.node].message # Top.message

(***************************************************************************)
(* C2.  After the check returns, every Expr node of a declaration or       *)
(* statement the checker reached has an inferredType, errors or not.  The  *)
(* names that declarations introduce are left aside: no handler visits     *)
(* them.                                                                   *)
(***************************************************************************)
DeclaredName(q) == q[Len(q)].f \in {"name", "identifier"}
\* The body pass visits the declarations that are not duplicates, and the
\* statements if the declarations left no error.
Reached(q) ==
    IF InDeclarations(q) THEN ~IsDuplicate(<<q[1]>>) ELSE ~DeclarationError

C2_EveryExprTyped ==
    FirstRunReturned =>
        \A q \in ExprPaths : (~DeclaredName(q) /\ Reached(q)) => inferredType[q] # PyNone

(***************************************************************************)
(* C3.  A second check of the same tree changes no inferredType and does   *)
(* not let Program.errors grow.                                            *)
(***************************************************************************)
C3_SecondRunIdempotent ==
    [][runs >= 2 => (inferredType' = inferredType /\ programErrors' = programErrors)]_vars

(***************************************************************************)
(* C4.  The fail-fast gate.  With an error recorded in the module's        *)
(* declarations, no module statement is visited and no diagnostic is added *)
(* to one; with none recorded, the Program handler goes on from its        *)
(* declarations to its statements, which it visits in source order.        *)
(***************************************************************************)
\* The Program handler has finished its two passes over the declarations.
AtGate == TopIs("Program.declarations") /\ Top.i = NumDeclarations + 1

C4_GateClosed ==
    DeclarationError => \A i \in 1..NumStatements : ~OnStack(ModuleStatement(i))
C4_NoStatementDiagnostic ==
    DeclarationError =>
        \A k \in 1..Len(programErrors') :
            InStatements(programErrors'[k].location) => k <= Len(programErrors)
C4_SourceOrder ==
    \A i, j \in 1..NumStatements :
        (i < j /\ OnStack(ModuleStatement(j)))
            => (ResultUnder(ModuleStatement(i)) /\ ~OnStack(ModuleStatement(i)))
C4_GateOpen ==
    (AtGate /\ ~DeclarationError) => (stack' # <<>> /\ Head(stack').pc = "Program.statements")

C4_FailFastGate ==
    /\ [](C4_GateClosed /\ C4_SourceOrder)
    /\ [][C4_NoStatementDiagnostic /\ C4_GateOpen]_vars

(***************************************************************************)
(* The scoping of the tree, read off the declarations.                     *)
(***************************************************************************)
Max(S) == CHOOSE i \in S : \A j \in S : j <= i


\* The module's functions, and the one whose statements hold a node.
ModuleFunctions ==
    {ModuleDeclaration(i) : i \in {j \in 1..NumDeclarations :
                                      Node(ModuleDeclaration(j)).kind = "FuncDef"}}
InBodyOf(F, path) == IsPrefix(F, path) /\ Len(path) > Len(F) /\ path[Len(F) + 1].f = "statements"

\* The global scope after the collection pass: the last declaration of a
\* name binds it, the builtin functions are bound from the start.
GlobalBinding(name) ==
    LET ds == {i \in 1..NumDeclarations : DeclName(ModuleDeclaration(i)) = name}
        d == ModuleDeclaration(Max(ds))
    IN  IF ds = {} THEN Subscript(Builtins, name)
        ELSE IF Node(d).kind = "FuncDef" THEN getSignature(d)
        ELSE TypedVarOf(Sub(d, "var"))

\* Function F's own scope: its name, then its parameters, then its local
\* declarations; a name that repeats an earlier one or names a class does
\* not bind.
ParamName(F, i) == Node(Sub(Elem(F, "params", i), "identifier")).name
LocalName(F, k) == DeclName(Elem(F, "declarations", k))
ParamBinds(F, i) ==
    /\ ParamName(F, i) # DeclName(F)
    /\ ~classExists(ParamName(F, i))
    /\ \A j \in 1..(i - 1) : ParamName(F, j) # ParamName(F, i)
LocalBinds(F, k) ==
    /\ LocalName(F, k) # DeclName(F)
    /\ ~classExists(LocalName(F, k))
    /\ \A i \in 1..Len(Node(F).params) : ParamName(F, i) # LocalName(F, k)
    /\ \A j \in 1..(k - 1) : LocalName(F, j) # LocalName(F, k)
FunctionBinding(F, name) ==
    LET ps == {i \in 1..Len(Node(F).params) : ParamName(F, i) = name /\ ParamBinds(F, i)}
        ls == {k \in 1..Len(Node(F).declarations) : LocalName(F, k) = name /\ LocalBinds(F, k)}
    IN  IF name = DeclName(F) THEN getSignature(F)
        ELSE IF ps # {} THEN TypedVarOf(Elem(F, "params", Max(ps)))
        ELSE IF ls # {} THEN TypedVarOf(Sub(Elem(F, "declarations", Max(ls)), "var"))
        ELSE PyNone

\* The innermost scope at a node, and the scopes visible from it.
CurrentBinding(path, name) ==
    IF \E F \in ModuleFunctions : InBodyOf(F, path)
    THEN FunctionBinding(CHOOSE F \in ModuleFunctions : InBodyOf(F, path), name)
    ELSE GlobalBinding(name)
VisibleBinding(path, name) ==
    IF CurrentBinding(path, name) # PyNone THEN CurrentBinding(path, name)
    ELSE GlobalBinding(name)

\* The identifiers read or assigned by statements: not the names of
\* declarations, and not the callee of a call, which CallExpr resolves.
IdentifierUses ==
    {q \in ExprPaths :
        /\ Node(q).kind = "Identifier"
        /\ q[Len(q)].f \notin {"name", "identifier", "function"}}
IsVisited(q) == inferredType[q] # PyNone

AssignStmts == {a \in StmtPaths : Node(a).kind = "AssignStmt"}
Targets(a) == {Elem(a, "targets", i) : i \in 1..Len(Node(a).targets)}
WasChecked(a) == IsVisited(Sub(a, "value"))

(***************************************************************************)
(* C5.  At module and at function level, a declaration whose identifier    *)
(* got an error in the collection pass is not visited in the body pass,    *)
(* and the other declarations of the block are visited.                    *)
(***************************************************************************)
AllDeclarations ==
    {ModuleDeclaration(i) : i \in 1..NumDeclarations}
    \cup UNION {{Elem(F, "declarations", k) : k \in 1..Len(Node(F).declarations)} :
                   F \in ModuleFunctions}
\* The body pass leaves an initializer typed, and a result in a function's statements.
BodyVisited(d) ==
    IF Node(d).kind = "VarDef" THEN IsVisited(Sub(d, "value"))
    ELSE Node(d).statements # <<>> => \E i \in 1..Len(Node(d).statements) :
                                         ResultUnder(Elem(d, "statements", i))
\* The block of the declaration was itself visited.
BlockVisited(d) ==
    \A F \in ModuleFunctions : IsPrefix(F, d) /\ F # d => ~IsDuplicate(F)

C5_DuplicateSkipped ==
    \A d \in AllDeclarations :
        (TopIs("visit") /\ Top.node = d) => errorMsg[getIdentifier(d)] = PyNone
C5_OthersVisited ==
    \A d \in AllDeclarations :
        (~IsDuplicate(d) /\ BlockVisited(d)) => BodyVisited(d)

C5_SkipDeclarationWithError ==
    /\ FirstRun => C5_DuplicateSkipped
    /\ FirstRunReturned => C5_OthersVisited

(***************************************************************************)
(* C6.  Forward reference.  Every function signature of the module is      *)
(* bound in the global scope before the body of a declaration is visited,  *)
(* so a call in function A to a function B declared after A resolves to    *)
(* B's signature and gets no 'Not a function' diagnostic.                  *)
(***************************************************************************)
\* The Program handler is past its collection pass.
BodyPass ==
    \E k \in 1..Len(stack) : stack[k].pc \in {"Program.declarations", "Program.statements"}

CallExprs == {c \in ExprPaths : Node(c).kind = "CallExpr"}
Callee(c) == Node(Sub(c, "function")).name
\* A call in the body of A to a function of the module declared after A.
ForwardCall(A, c) ==
    /\ InBodyOf(A, c)
    /\ FunctionBinding(A, Callee(c)) = PyNone
    /\ IsFuncType(GlobalBinding(Callee(c)))
    /\ \E B \in ModuleFunctions : DeclName(B) = Callee(c) /\ B[1].i > A[1].i

C6_SignaturesBound ==
    BodyPass => \A F \in ModuleFunctions :
                    Subscript(symbolTables[1], DeclName(F)) = GlobalBinding(DeclName(F))
C6_CallResolves ==
    \A A \in ModuleFunctions : \A c \in CallExprs :
        (ForwardCall(A, c) /\ IsVisited(c))
            => /\ inferredType[c] = GlobalBinding(Callee(c)).returnType
               /\ \A k \in DiagnosticsOn(c) :
                      programErrors[k].message.message # "Not a function: " \o Callee(c)

C6_ForwardReference ==
    FirstRun => (C6_SignaturesBound /\ C6_CallResolves)

(***************************************************************************)
(* C7.  Scope shadowing.  For a name bound at global scope and as a        *)
(* parameter or local of a function f, a use in f's body has the type of   *)
(* f's binding, a use elsewhere has the type of the global binding, and    *)
(* outside the FuncDef handler only the global scope is on the stack.      *)
(***************************************************************************)
Shadowed(name) ==
    /\ IsValueType(GlobalBinding(name))
    /\ \E f \in ModuleFunctions : name # DeclName(f) /\ FunctionBinding(f, name) # PyNone
InFuncDef ==
    \E k \in 1..Len(stack) :
        stack[k].pc \in {"FuncDef", "FuncDef.params", "FuncDef.collect",
                         "FuncDef.declarations", "FuncDef.statements"}

C7_UsesResolve ==
    \A q \in IdentifierUses :
        (IsVisited(q) /\ Shadowed(Node(q).name))
            => inferredType[q] = VisibleBinding(q, Node(q).name)
C7_BindingsRemoved == (status # "raised" /\ ~InFuncDef) => Len(symbolTables) = 1

C7_ScopeShadowing ==
    FirstRun => (C7_UsesResolve /\ C7_BindingsRemoved)

(***************************************************************************)
(* C8.  An identifier whose name no visible scope binds gets exactly one   *)
(* diagnostic and the type object; an identifier bound to a value type     *)
(* gets no 'Unknown identifier' diagnostic and the type of its binding.    *)
(***************************************************************************)
UnknownIdentifier(q) ==
    /\ errorMsg[q] # PyNone
    /\ errorMsg[q].message = "Unknown identifier: " \o Node(q).name

C8_Absent(q) ==
    /\ inferredType[q] = ObjectType
    /\ status = "returned" => (UnknownIdentifier(q) /\ Cardinality(DiagnosticsOn(q)) = 1)
C8_Bound(q) ==
    /\ inferredType[q] = VisibleBinding(q, Node(q).name)
    /\ ~UnknownIdentifier(q)

C8_IdentifierLookup ==
    FirstRun =>
        \A q \in IdentifierUses :
            IsVisited(q) =>
                /\ VisibleBinding(q, Node(q).name) = PyNone => C8_Absent(q)
                /\ IsValueType(VisibleBinding(q, Node(q).name)) => C8_Bound(q)

(***************************************************************************)
(* C9.  An AssignStmt gets no diagnostic, on itself or on a target, iff    *)
(* every target is declared in the innermost scope with a type the value   *)
(* can be assigned to; a target declared in the global scope only makes    *)
(* an assignment in a function an error.                                   *)
(***************************************************************************)
Accepted(a) == errorMsg[a] = PyNone /\ \A t \in Targets(a) : errorMsg[t] = PyNone
Assignable(a, t) ==
    LET b == CurrentBinding(a, Node(t).name)
    IN  IsValueType(b) /\ canAssign(inferredType[Sub(a, "value")], b)

FailsBoth(a, i) ==
    LET t == Elem(a, "targets", i)
    IN  /\ CurrentBinding(a, Node(t).name) = PyNone
        /\ IsVisited(t)
        /\ ~canAssign(inferredType[Sub(a, "value")], inferredType[t])
        /\ \A j \in 1..(i - 1) : Assignable(a, Elem(a, "targets", j))
DiagnosticsOfFailure(a, i) == DiagnosticsOn(a) \cup DiagnosticsOn(Elem(a, "targets", i))

IfStmts == {a \in StmtPaths : Node(a).kind = "IfStmt"}
WhileStmts == {a \in StmtPaths : Node(a).kind = "WhileStmt"}
\* The callback of an if or a while has run: its condition was visited before.
ConditionVisited(a) == ResultUnder(Sub(a, "condition"))
HoldsReturn(a, f) == \E i \in 1..Len(Node(a)[f]) : isReturn[Elem(a, f, i)]

C11_IfStmtIsReturn ==
    status = "returned" =>
        \A a \in IfStmts :
            ConditionVisited(a)
                => (isReturn[a] <=> (HoldsReturn(a, "thenBody") /\ HoldsReturn(a, "elseBody")))

(***************************************************************************)
(* C12.  After checking, a WhileStmt whose body holds a statement with     *)
(* isReturn has isReturn, so a function whose only statement is such a     *)
(* loop gets no missing-return diagnostic.                                 *)
(***************************************************************************)
DeclaredReturnType(F) == ClassTypeOf(Sub(F, "returnType"))
MissingReturn(F) ==
    /\ errorMsg[getIdentifier(F)] # PyNone
    /\ errorMsg[getIdentifier(F)].message =
          "Expected return statement of type " \o TypeStr(DeclaredReturnType(F))

C12_LoopMarked ==
    \A w \in WhileStmts : (ConditionVisited(w) /\ HoldsReturn(w, "body")) => isReturn[w]
C12_NoMissingReturn ==
    \A F \in ModuleFunctions :
        ( /\ Len(Node(F).statements) = 1
          /\ Elem(F, "statements", 1) \in WhileStmts
          /\ HoldsReturn(Elem(F, "statements", 1), "body") ) => ~MissingReturn(F)

C12_WhileStmtIsReturn ==
    status = "returned" => (C12_LoopMarked /\ C12_NoMissingReturn)

(***************************************************************************)
(* C13.  A checked function has the missing-return diagnostic on its        *)
(* identifier iff none of its top-level statements has isReturn and None   *)
(* cannot be assigned to its declared return type.                         *)
(***************************************************************************)
LacksReturn(F) == \A i \in 1..Len(Node(F).statements) : ~isReturn[Elem(F, "statements", i)]
ReturnRequired(F) == ~canAssign(NoneType, DeclaredReturnType(F))

C13_MissingReturn ==
    status = "returned" =>
        \A F \in ModuleFunctions :
            /\ ~IsDuplicate(F) => (MissingReturn(F) <=> (LacksReturn(F) /\ ReturnRequired(F)))
            /\ ~(LacksReturn(F) /\ ReturnRequired(F)) => ~MissingReturn(F)
            /\ Cardinality(DiagnosticsOn(getIdentifier(F))) <= 1

\* A function with statements, none of them a return, got the diagnostic.
C13_Witness ==
    /\ status = "returned"
    /\ \E F \in ModuleFunctions :
          /\ Node(F).statements # <<>>
          /\ LacksReturn(F)
          /\ MissingReturn(F)

(***************************************************************************)
(* C14.  A checked ReturnStmt outside every function has a diagnostic,     *)
(* also after functions were checked; a ReturnStmt in a checked function   *)
(* has one iff the type of its value, <None> without a value, cannot be    *)
(* assigned to the function's declared return type.                        *)
(***************************************************************************)
ReturnStmts == {r \in StmtPaths : Node(r).kind = "ReturnStmt"}
ReturnedType(r) ==
    IF Node(r).value = PyNone THEN NoneType ELSE inferredType[Sub(r, "value")]
OutsideFunction(r) ==
    /\ errorMsg[r] # PyNone
    /\ errorMsg[r].message = "Return statement outside of function definition"

C14_Outside ==
    ~DeclarationError => \A r \in ReturnStmts : InStatements(r) => OutsideFunction(r)
C14_Inside ==
    \A F \in ModuleFunctions : \A r \in ReturnStmts :
        (InBodyOf(F, r) /\ ~IsDuplicate(F))
            => /\ errorMsg[r] # PyNone <=> ~canAssign(ReturnedType(r), DeclaredReturnType(F))
               /\ ~OutsideFunction(r)

C14_ReturnStmt ==
    status = "returned" => (C14_Outside /\ C14_Inside)

\* A return at module level was reported after a function was checked.
C14_Witness ==
    /\ status = "returned"
    /\ \E F \in ModuleFunctions : ~IsDuplicate(F) /\ Node(F).statements # <<>>
    /\ \E r \in ReturnStmts : InStatements(r) /\ OutsideFunction(r)

(***************************************************************************)
(* C15.  The typing table of BinaryExpr over operands typed int, bool,     *)
(* str, <None> and object: which pairs each operator accepts and the type  *)
(* it yields; an accepted expression has no diagnostic, a rejected one has *)
(* one.                                                                    *)
(***************************************************************************)
BinaryExprs == {b \in ExprPaths : Node(b).kind = "BinaryExpr"}
OperandTypes == {IntType, BoolType, StrType, NoneType, ObjectType}
Primitive == {IntType, BoolType, StrType}

TableAccepts(op, l, r) ==
    CASE op = "+" -> l = r /\ l \in {IntType, StrType}
      [] op \in {"-", "*", "//", "%"} -> l = IntType /\ r = IntType
      [] op \in {"<", "<=", ">", ">="} -> l = IntType /\ r = IntType
      [] op \in {"==", "!="} -> l = r /\ l \in Primitive
      [] op = "is" -> l \notin Primitive /\ r \notin Primitive
      [] op \in {"and", "or"} -> l = BoolType /\ r = BoolType
TableYields(op, l) ==
    IF op = "+" THEN l
    ELSE IF op \in {"-", "*", "//", "%"} THEN IntType
    ELSE BoolType

C15_BinaryExprTable ==
    status = "returned" =>
        \A b \in BinaryExprs :
            LET op == Node(b).operator
                l == inferredType[Sub(b, "left")]
                r == inferredType[Sub(b, "right")]
            IN  (l \in OperandTypes /\ r \in OperandTypes)
                    => IF TableAccepts(op, l, r)
                       THEN inferredType[b] = TableYields(op, l) /\ errorMsg[b] = PyNone
                       ELSE errorMsg[b] # PyNone

\* Two operands of type <None> were compared with 'is', and with '=='.
C15_Witness ==
    /\ status = "returned"
    /\ \E b \in BinaryExprs :
          /\ Node(b).operator \in {"is", "=="}
          /\ inferredType[Sub(b, "left")] = NoneType
          /\ inferredType[Sub(b, "right")] = NoneType
          /\ (Node(b).operator = "is") <=> (inferredType[b] = BoolType)

(***************************************************************************)
(* C16.  A BinaryExpr or UnaryExpr whose operand types break the rule of   *)
(* its operator has exactly one diagnostic and the type object.            *)
(***************************************************************************)
UnaryExprs == {u \in ExprPaths : Node(u).kind = "UnaryExpr"}
UnaryAccepts(op, t) ==
    CASE op = "-" -> t = IntType
      [] op = "not" -> t = BoolType

C16_Binary ==
    \A b \in BinaryExprs :
        LET l == inferredType[Sub(b, "left")]
            r == inferredType[Sub(b, "right")]
        IN  (l \in OperandTypes /\ r \in OperandTypes /\ ~TableAccepts(Node(b).operator, l, r))
                => (Cardinality(DiagnosticsOn(b)) = 1 /\ inferredType[b] = ObjectType)
C16_Unary ==
    \A u \in UnaryExprs :
        LET t == inferredType[Sub(u, "operand")]
        IN  (t \in OperandTypes /\ ~UnaryAccepts(Node(u).operator, t))
                => (Cardinality(DiagnosticsOn(u)) = 1 /\ inferredType[u] = ObjectType)

C16_OperatorFailure ==
    status = "returned" => (C16_Binary /\ C16_Unary)

(***************************************************************************)
(* C17.  A call of a name that is not a class: when the name does not      *)
(* resolve to a FuncType the call has one diagnostic and the type object;  *)
(* otherwise it has a diagnostic exactly when the argument count differs   *)
(* from the parameter count or some argument cannot be assigned to the     *)
(* parameter at its position, never more than one, and its type is the     *)
(* return type of the signature.                                           *)
(***************************************************************************)
FunctionCalls == {c \in CallExprs : ~classExists(Callee(c))}
ArgTypes(c) == [i \in 1..Len(Node(c).args) |-> inferredType[Elem(c, "args", i)]]
ArgsRejected(c, t) ==
    \/ Len(t.parameters) # Len(Node(c).args)
    \/ \E i \in 1..Len(t.parameters) : ~canAssign(ArgTypes(c)[i], t.parameters[i])

\* The step of CallExpr: the callee is given the signature exactly when the
\* name resolves to one, and the call its return type, or object.
C17_Resolution ==
    (status = "checking" /\ TopIs("CallExpr") /\ Top.node \in FunctionCalls) =>
        LET c == Top.node
            t == getType(symbolTables, Callee(c))
        IN  IF IsFuncType(t)
            THEN /\ inferredType'[Sub(c, "function")] = t
                 /\ inferredType'[c] = t.returnType
            ELSE /\ inferredType'[Sub(c, "function")] = inferredType[Sub(c, "function")]
                 /\ inferredType'[c] = ObjectType

\* After the first run the callee holds the signature the call resolved to.
C17_Diagnostics ==
    FirstRunReturned =>
        \A c \in FunctionCalls :
            IsVisited(c) =>
                LET t == inferredType[Sub(c, "function")]
                IN  IF ~IsFuncType(t)
                    THEN /\ Cardinality(DiagnosticsOn(c)) = 1
                         /\ inferredType[c] = ObjectType
                    ELSE /\ Cardinality(DiagnosticsOn(c)) = (IF ArgsRejected(c, t) THEN 1 ELSE 0)
                         /\ inferredType[c] = t.returnType

C17_CallExpr == [][C17_Resolution]_vars /\ []C17_Diagnostics

\* A call with two unassignable arguments, one with the wrong count, an
\* accepted one and one of an unbound name have all been seen.
C17_Witness ==
    /\ FirstRunReturned
    /\ \E c \in FunctionCalls :
          /\ IsVisited(c)
          /\ IsFuncType(inferredType[Sub(c, "function")])
          /\ LET t == inferredType[Sub(c, "function")]
             IN  /\ Len(t.parameters) = Len(Node(c).args)
                 /\ Cardinality({i \in 1..Len(t.parameters) :
                        ~canAssign(ArgTypes(c)[i], t.parameters[i])}) >= 2
                 /\ Cardinality(DiagnosticsOn(c)) = 1
                 /\ inferredType[c] = t.returnType

(***************************************************************************)
(* C18.  An IfExpr whose condition is not typed bool is an accumulated     *)
(* error: no exception leaves the checker, and once the run has returned   *)
(* the expression has one diagnostic and the join of its branch types.     *)
(***************************************************************************)
IfExprs == {e \in ExprPaths : Node(e).kind = "IfExpr"}
C18_NoException == status # "raised"
C18_Accumulated ==
    status = "returned" =>
        \A e \in IfExprs :
            (IsVisited(Sub(e, "condition")) /\ inferredType[Sub(e, "condition")] # BoolType)
                => /\ Cardinality(DiagnosticsOn(e)) = 1
                   /\ inferredType[e] = join(inferredType[Sub(e, "thenExpr")],
                                             inferredType[Sub(e, "elseExpr")])
C18_IfExprCondition == C18_NoException /\ C18_Accumulated

(***************************************************************************)
(* C19.  A first check of def add(a: int, b: int) -> int: return a + b and *)
(* print(add(1, 2)) records no error, binds add to the signature           *)
(* (int, int) -> int, types add(1, 2) as int and accepts it as the object  *)
(* argument of print.                                                      *)
(***************************************************************************)
PrintCall == <<[f |-> "statements", i |-> 1], [f |-> "expr", i |-> 0]>>
AddCall == Elem(PrintCall, "args", 1)
C19_AddProgram ==
    (program = AddProgram /\ FirstRunReturned) =>
        /\ errors = <<>>
        /\ programErrors = <<>>
        /\ "add" \in DOMAIN symbolTables[1]
        /\ symbolTables[1]["add"] = FuncType(<<IntType, IntType>>, IntType)
        /\ inferredType[Sub(AddCall, "function")] = FuncType(<<IntType, IntType>>, IntType)
        /\ inferredType[AddCall] = IntType
        /\ inferredType[Sub(PrintCall, "function")] = FuncType(<<ObjectType>>, NoneType)
        /\ DiagnosticsOn(PrintCall) = {}
        /\ inferredType[PrintCall] = NoneType
C19_Witness ==
    /\ program = AddProgram
    /\ FirstRunReturned
    /\ inferredType[AddCall] = IntType
    /\ inferredType[PrintCall] = NoneType

(***************************************************************************)
(* C20.  A module whose only unsupported construct is one class definition *)
(* at module level, wherever it stands: the parser records exactly one     *)
(* diagnostic, "Unsupported", and main never passes the module to the      *)
(* checker.                                                                *)
(***************************************************************************)
HasClassDef == \E i \in 1..Len(moduleBody) : moduleBody[i] = ClassDef
C20_OneDiagnostic ==
    (HasClassDef /\ status # "parsing") => parserErrors = <<"Unsupported">>
C20_NotChecked ==
    HasClassDef => (runs = 0 /\ status \in {"parsing", "parsed", "parse errors"})
C20_ClassDefUnsupported == C20_OneDiagnostic /\ C20_NotChecked

(***************************************************************************)
(* C28.  A scope query has no effect on later lookups: the steps that only *)
(* call defInCurrentScope (AssignStmt) or getGlobal (Identifier) leave the *)
(* result of getType and of getLocalType unchanged for every name.         *)
(***************************************************************************)
QueriedNames == {"x", "g", "a", "b", "o", "f", "h", "add", "print"}
QueryStep == TopIs("AssignStmt") \/ TopIs("Identifier")
C28_LookupsKept ==
    QueryStep =>
        \A name \in QueriedNames :
            /\ getType(symbolTables', name) = getType(symbolTables, name)
            /\ getLocalType(symbolTables', name) = getLocalType(symbolTables, name)
C28_QueriesHaveNoEffect == [][C28_LookupsKept]_vars

(***************************************************************************)
(* C29.  The scope stack is balanced: however the FuncDef callback is      *)
(* left, the scope it pushed is popped and expReturnType is reset, so      *)
(* once a check of a Program has ended the stack holds the global scope    *)
(* only and no return type is expected.                                    *)
(***************************************************************************)
CheckEnded == status \in {"returned", "raised"}
C29_ScopeBalance ==
    CheckEnded => (Len(symbolTables) = 1 /\ expReturnType = PyNone)

(***************************************************************************)
(* C30.  While a fresh checker checks one freshly parsed Program, the      *)
(* checker's error list and Program.errors hold the same messages in the   *)
(* same order, and as many as there are nodes with errorMsg set.           *)
(***************************************************************************)
NodesWithError == {q \in DOMAIN errorMsg : errorMsg[q] # PyNone}
C30_Lockstep ==
    runs <= 1 =>
        /\ Len(errors) = Len(programErrors)
        /\ \A i \in 1..Len(errors) : programErrors[i].message = errors[i]
        /\ Cardinality(NodesWithError) = Len(errors)
C30_Witness ==
    /\ FirstRun
    /\ status = "checking"
    /\ Len(errors) >= 2
    /\ Len(programErrors) = Len(errors)

(***************************************************************************)
(* C24.  In the collection pass of a block, a declaration whose name is    *)
(* bound already in the scope of the block (by an earlier declaration of   *)
(* the block, by a parameter or, in the module, by a builtin function) or  *)
(* names a class has exactly one diagnostic "Duplicate declaration" on its *)
(* identifier; the first declaration of a name that names no class has     *)
(* none.                                                                   *)
(***************************************************************************)
ModuleDeclarations == {ModuleDeclaration(i) : i \in 1..NumDeclarations}
\* The block of a declaration, the declarations before it, the parameters.
EnclosingFunctions(d) == {F \in ModuleFunctions : IsPrefix(F, d) /\ F # d}
Position(d) == d[Len(d)].i
EarlierNames(d) ==
    IF d \in ModuleDeclarations
    THEN {DeclName(ModuleDeclaration(j)) : j \in 1..(Position(d) - 1)}
    ELSE UNION {{LocalName(F, j) : j \in 1..(Position(d) - 1)} : F \in EnclosingFunctions(d)}
ParameterNames(d) ==
    UNION {{ParamName(F, i) : i \in 1..Len(Node(F).params)} : F \in EnclosingFunctions(d)}
BuiltinNames(d) == IF d \in ModuleDeclarations THEN DOMAIN Builtins ELSE {}
AlreadyDeclared(d) ==
    \/ DeclName(d) \in EarlierNames(d) \cup ParameterNames(d) \cup BuiltinNames(d)
    \/ classExists(DeclName(d))

C24_DuplicateDeclaration ==
    FirstRunReturned =>
        \A d \in AllDeclarations :
            BlockVisited(d) =>
                IF AlreadyDeclared(d)
                THEN IsDuplicate(d) /\ Cardinality(DiagnosticsOn(getIdentifier(d))) = 1
                ELSE ~IsDuplicate(d)

(***************************************************************************)
(* C23.  The order of the pipeline in main: the checker is invoked only    *)
(* after a parse that ended with no error and a tree, a code generator     *)
(* only when, in addition, the check recorded no error; with an error of   *)
(* either kind no code is generated.                                       *)
(***************************************************************************)
ParseFinished == Len(body) = Len(moduleBody) /\ status # "parsing"
CodeGenerated == status \in {"emitted python", "emitted llvm"}
C23_CheckAfterParse ==
    runs >= 1 => (ParseFinished /\ parserErrors = <<>> /\ tree # PyNone)
C23_GenerateAfterCheck ==
    CodeGenerated =>
        /\ ParseFinished /\ parserErrors = <<>> /\ tree # PyNone
        /\ runs = 1
        /\ errors = <<>> /\ programErrors = <<>>
C23_NoErrorNoCode ==
    (Len(parserErrors) > 0 \/ Len(errors) > 0 \/ Len(programErrors) > 0) => ~CodeGenerated
C23_PipelineOrder == C23_CheckAfterParse /\ C23_GenerateAfterCheck /\ C23_NoErrorNoCode
C23_Witness ==
    /\ status = "emitted llvm"
    /\ runs = 1
    /\ NumDeclarations >= 1
    /\ NumStatements >= 1
    /\ errors = <<>>

(***************************************************************************)
(* C25.  The order of dispatch.  On a node with children, postorder        *)
(* invokes the visitor on the children before the node's own callback,     *)
(* preorder the callback before the children, visit the node's callback    *)
(* alone.  The checker dispatches every node but Program and FuncDef       *)
(* through postorder: when the callback of a node runs, the traversal of   *)
(* each of its children has ended.                                         *)
(***************************************************************************)
EntryReturned == status = "visiting" /\ Len(stack) = 1 /\ Top.pc = "called"
C25_EntryPoints ==
    EntryReturned =>
        LET r == Top.node
            value == Sub(r, "value")
        IN  CASE Top.message = "visit" -> order = <<r>>
              [] Node(r).value = PyNone -> order = <<r>>
              [] Top.message = "postorder" -> order = <<value, r>>
              [] Top.message = "preorder" -> order = <<r, value>>

\* The nodes the checker's traversal of a node reaches.
RECURSIVE ReachedFrom(_)
ReachedFrom(path) ==
    {path} \cup UNION {ReachedFrom(PostorderChildren(path)[i]) :
                          i \in 1..Len(PostorderChildren(path))}

\* The traversal of child c has ended: no call on a node of c is pending,
\* and the callbacks that always leave a type (literals, identifiers) have
\* left one on every such node the traversal of c reaches.
TraversalEnded(c) ==
    /\ ~OnStack(c)
    /\ \A e \in ReachedFrom(c) :
          Node(e).kind \in LiteralKinds \cup {"Identifier"} => IsVisited(e)
CallbackRuns ==
    /\ status = "checking"
    /\ stack # <<>>
    /\ Top.pc = Node(Top.node).kind
    /\ Top.pc \notin {"Program", "FuncDef"}
C25_ParentAfterChildren ==
    CallbackRuns =>
        \A i \in 1..Len(PostorderChildren(Top.node)) :
            TraversalEnded(PostorderChildren(Top.node)[i])

C25_DispatchOrder == C25_EntryPoints /\ C25_ParentAfterChildren

\* A postorder over a return with a value has ended, and so has the check
\* of a tree with a statement that holds other statements.
C25_Witness ==
    /\ EntryReturned
    /\ Top.message = "postorder"
    /\ Len(order) = 2
C25_CheckerWitness ==
    /\ CallbackRuns
    /\ Top.pc \in {"IfStmt", "WhileStmt"}
    /\ Len(PostorderChildren(Top.node)) >= 2


(***************************************************************************)
(* The parser over Python syntax trees (parser.py).  A node of Python's   *)
(* ast module is a record of its class name (kind), its name, operator or  *)
(* constant type (op), its expression children in field order (args) and   *)
(* its two statement lists (body, orelse).                                 *)
(***************************************************************************)
\* How many operands a drawn boolean chain holds at most.
MaxOperands == 3
\* How many sibling statements a drawn module body holds at most.
MaxSiblings == 2

Py(kind, op, args, stmts, orelse) ==
    [kind |-> kind, op |-> op, args |-> args, body |-> stmts, orelse |-> orelse]

\* What one call of Parser.visit leaves: the value it returns, the ParseErrors
\* appended to Parser.errors during the call, and whether an exception that
\* is no ParseError left it.
Outcome(node, errs, raised) == [node |-> node, errors |-> errs, raised |-> raised]

\* raise ParseError(message) in a visit method, caught by the Parser.visit
\* that dispatched to it: the error is appended and None is returned.
ParseError(errs, message) == Outcome(PyNone, Append(errs, message), FALSE)

\* A fold that puts each further operand on the left of the tree so far.
RECURSIVE ReduceSwapped(_, _, _, _)
ReduceSwapped(current, op, values, i) ==
    IF i > Len(values)
    THEN current
    ELSE ReduceSwapped(BinaryExpr(values[i], op, current), op, values, i + 1)

\* The for loop of binaryReduce from values[i] on.
RECURSIVE ReduceFrom(_, _, _, _)
ReduceFrom(current, op, values, i) ==
    IF i > Len(values)
    THEN current
    ELSE ReduceFrom(BinaryExpr(current, op, values[i]), op, values, i + 1)

\* Parser.binaryReduce: values[0].location is read first, an AttributeError
\* when the first operand is None.
binaryReduce(op, values) ==
    IF values[1] = PyNone
    THEN [raised |-> TRUE, node |-> PyNone]
    ELSE [raised |-> FALSE,
          node |-> ReduceFrom(BinaryExpr(values[1], op, values[2]), op, values, 3)]

\* The loop of visit_FunctionDef over the visited body.
RECURSIVE FunctionLoop(_, _, _, _, _)
FunctionLoop(b, i, declarations, statements, decl) ==
    IF i > Len(b)
    THEN [raised |-> FALSE, message |-> "", declarations |-> declarations,
          statements |-> statements]
    ELSE IF b[i].kind \in {"VarDef", "FuncDef"}
    THEN IF b[i].kind = "FuncDef"
         THEN [raised |-> TRUE, message |-> "Nested definitions are unsupported",
               declarations |-> <<>>, statements |-> <<>>]
         ELSE IF ~decl
         THEN [raised |-> TRUE, message |-> "All declarations must come before statements",
               declarations |-> <<>>, statements |-> <<>>]
         ELSE FunctionLoop(b, i + 1, Append(declarations, b[i]), statements, decl)
    ELSE IF b[i] = PyNone \/ b[i].kind \in StmtKinds
    THEN FunctionLoop(b, i + 1, declarations, Append(statements, b[i]), FALSE)
    ELSE [raised |-> TRUE, message |-> "Expected declaration or statement",
          declarations |-> <<>>, statements |-> <<>>]

\* Parser.visit(node): NodeVisitor.visit dispatches on the class of the node
\* to visit_<class>, or to generic_visit when the parser defines none (Match),
\* and the ParseError a visit method raises is caught here.  VisitList is a
\* list comprehension [self.visit(x) for x in nodes], or visits that follow
\* one another in a method body.
RECURSIVE PyVisit(_), VisitList(_)
VisitList(nodes) ==
    IF nodes = <<>>
    THEN [nodes |-> <<>>, errors |-> <<>>, raised |-> FALSE]
    ELSE LET h == PyVisit(Head(nodes))
         IN  IF h.raised
             THEN [nodes |-> <<>>, errors |-> h.errors, raised |-> TRUE]
             ELSE LET t == VisitList(Tail(nodes))
                  IN  [nodes |-> <<h.node>> \o t.nodes,
                       errors |-> h.errors \o t.errors, raised |-> t.raised]

PyVisit(n) ==
    LET vs == VisitList(n.args \o n.body \o n.orelse)
        args == SubSeq(vs.nodes, 1, Len(n.args))
        block == SubSeq(vs.nodes, Len(n.args) + 1, Len(n.args) + Len(n.body))
        others == SubSeq(vs.nodes, Len(n.args) + Len(n.body) + 1, Len(vs.nodes))
        Declares(s) == \E i \in 1..Len(s) : s[i].kind \in {"VarDef", "FuncDef"}
        Done(node) == Outcome(node, vs.errors, FALSE)
    IN  IF n.kind \in {"Attribute", "For", "Global", "ClassDef", "With", "List", "Tuple"}
        THEN ParseError(<<>>, "Unsupported")
        ELSE IF n.kind = "Subscript"
        THEN ParseError(<<>>, "Unsupported index operation")
        ELSE IF n.kind = "Name"
        THEN Outcome(Identifier(n.op), <<>>, FALSE)
        ELSE IF n.kind = "Constant"
        THEN CASE n.op = "bool" -> Outcome(BooleanLiteral, <<>>, FALSE)
               [] n.op = "int" -> Outcome(IntegerLiteral, <<>>, FALSE)
               [] n.op = "str" -> Outcome(StringLiteral, <<>>, FALSE)
               [] n.op = "None" -> Outcome(NoneLiteral, <<>>, FALSE)
               [] OTHER -> ParseError(<<>>, "Unsupported constant")
        ELSE IF n.kind = "Pass"
        THEN Outcome(PyNone, <<>>, FALSE)
        ELSE IF n.kind = "arg"
        THEN IF n.args = <<>>
             THEN ParseError(<<>>, "Missing type annotation")
             ELSE Outcome(TypedVar(Identifier(n.op), ClassType(n.args[1].op)), <<>>, FALSE)
        ELSE IF n.kind = "Compare" /\ Len(n.args) > 2
        THEN ParseError(<<>>, "Unsupported compare between > 2 things")
        ELSE IF n.kind = "While" /\ n.orelse # <<>>
        THEN ParseError(<<>>, "Cannot have else in while")
        ELSE IF vs.raised
        THEN Outcome(PyNone, vs.errors, TRUE)
        ELSE CASE n.kind = "BoolOp" ->
                    LET reduced == binaryReduce(n.op, args)
                    IN  Outcome(reduced.node, vs.errors, reduced.raised)
               [] n.kind \in {"BinOp", "Compare"} ->
                    Done(BinaryExpr(args[1], n.op, args[2]))
               [] n.kind = "UnaryOp" -> Done(UnaryExpr(n.op, args[1]))
               [] n.kind = "IfExp" -> Done(IfExpr(args[1], args[2], args[3]))
               [] n.kind = "Call" ->
                    IF args[1].kind = "Identifier"
                    THEN Done(CallExpr(args[1], Tail(args)))
                    ELSE ParseError(vs.errors, "Invalid receiver of call")
               [] n.kind = "Expr" -> Done(ExprStmt(args[1]))
               [] n.kind = "Assign" ->
                    Done(AssignStmt(SubSeq(args, 1, Len(args) - 1), args[Len(args)]))
               [] n.kind = "Return" ->
                    Done(ReturnStmt(IF args = <<>> THEN PyNone ELSE args[1]))
               [] n.kind = "AnnAssign" ->
                    IF args[2].kind \in LiteralKinds
                    THEN Done(VarDef(TypedVar(args[1], ClassType(n.op)), args[2]))
                    ELSE ParseError(vs.errors, "Expected literal value")
               [] n.kind = "While" ->
                    IF Declares(block)
                    THEN ParseError(vs.errors, "Cannot declare variables in loop")
                    ELSE Done(WhileStmt(args[1], block))
               [] n.kind = "If" ->
                    IF Declares(block \o others)
                    THEN ParseError(vs.errors, "Cannot declare variables in condition")
                    ELSE Done(IfStmt(args[1], block, others))
               [] n.kind = "FunctionDef" ->
                    LET loop == FunctionLoop(block, 1, <<>>, <<>>, TRUE)
                    IN  IF loop.raised
                        THEN ParseError(vs.errors, loop.message)
                        ELSE Done(FuncDef(Identifier(n.op), args, ClassType("<None>"),
                                          loop.declarations, loop.statements))
               [] n.kind = "Match" -> Done(PyNone)

\* The module bodies the parser is run on, as Python's ast.parse builds them:
\* every expression form around a name, around an attribute access (which
\* the parser rejects) and around a boolean chain, as the value of an
\* expression statement, an assignment and a return; boolean chains of 2 to
\* MaxOperands operands; blocks of statements and declarations at the top
\* level, in a function body and under while, if, with and match; and up to
\* MaxSiblings sibling statements.
PySources ==
    LET E(kind, op, args) == Py(kind, op, args, <<>>, <<>>)
        a == E("Name", "a", <<>>)
        x == E("Name", "x", <<>>)
        one == E("Constant", "int", <<>>)
        true == E("Constant", "bool", <<>>)
        attr == E("Attribute", "b", <<a>>)
        Chains(operands) ==
            {E("BoolOp", op, vs) : op \in {"and", "or"},
                                   vs \in UNION {[1..k -> operands] : k \in 2..MaxOperands}}
        Forms(e) ==
            {e, E("BinOp", "+", <<e, one>>), E("BinOp", "+", <<one, e>>),
             E("UnaryOp", "-", <<e>>), E("Compare", "<", <<e, one>>),
             E("Compare", "<", <<one, e, one>>), E("IfExp", "", <<e, one, one>>),
             E("IfExp", "", <<true, e, one>>), E("Call", "", <<E("Name", "print", <<>>), e>>),
             E("Call", "", <<e>>), E("BoolOp", "or", <<E("BoolOp", "and", <<a, e>>), true>>)}
        Exprs == Chains({a, true, attr}) \cup Forms(a) \cup Forms(attr)
                 \cup Forms(E("BoolOp", "and", <<attr, a>>))
                 \cup Forms(E("Constant", "float", <<>>))
        Stmts(e) == {Py("Expr", "", <<e>>, <<>>, <<>>), Py("Assign", "", <<x, e>>, <<>>, <<>>),
                     Py("Return", "", <<e>>, <<>>, <<>>)}
        assign == Py("Assign", "", <<x, one>>, <<>>, <<>>)
        decl == Py("AnnAssign", "int", <<x, one>>, <<>>, <<>>)
        defg == Py("FunctionDef", "g", <<>>, <<Py("Pass", "", <<>>, <<>>, <<>>)>>, <<>>)
        Blocks == UNION {[1..k -> {assign, decl, defg}] : k \in 1..2}
        Wrapped(b) == {Py("While", "", <<true>>, b, <<>>), Py("While", "", <<true>>, b, b),
                       Py("If", "", <<true>>, b, <<>>), Py("If", "", <<true>>, <<assign>>, b),
                       Py("With", "", <<a>>, b, <<>>), Py("Match", "", <<one>>, b, <<>>),
                       Py("While", "", <<true>>, <<Py("Match", "", <<one>>, b, <<>>)>>, <<>>)}
        Items == {assign, decl, defg} \cup UNION {Wrapped(b) : b \in Blocks}
        Bodies == UNION {{<<i>>, <<assign, i>>, <<decl, i>>} : i \in Items}
        Functions == {Py("FunctionDef", "f", <<Py("arg", "p", <<E("Name", "int", <<>>)>>, <<>>, <<>>)>>,
                         b, <<>>) : b \in Bodies}
        Siblings == {assign, decl, Py("For", "", <<x, a>>, <<assign>>, <<>>),
                     Py("Global", "x", <<>>, <<>>, <<>>),
                     Py("Assign", "", <<x, attr>>, <<>>, <<>>),
                     Py("Expr", "", <<E("Call", "", <<attr>>)>>, <<>>, <<>>),
                     Py("Expr", "", <<E("Call", "", <<E("Name", "print", <<>>), attr>>)>>, <<>>, <<>>),
                     Py("Assign", "", <<x, E("BoolOp", "and", <<attr, a>>)>>, <<>>, <<>>),
                     Py("Assign", "", <<x, E("BoolOp", "and", <<a, attr>>)>>, <<>>, <<>>),
                     Py("Return", "", <<E("UnaryOp", "-", <<attr>>)>>, <<>>, <<>>),
                     Py("ClassDef", "C", <<>>, <<assign>>, <<>>)}
    IN  {<<s>> : s \in UNION {Stmts(e) : e \in Exprs}}
        \cup Bodies
        \cup {<<f>> : f \in Functions}
        \cup UNION {[1..k -> Siblings] : k \in 0..MaxSiblings}

\* parser = Parser(), before parser.visit(tree) in Compiler.parse.
ParserInit ==
    /\ program = Program(<<>>, <<>>)
    /\ moduleBody \in PySources
    /\ body = <<>>
    /\ parserErrors = <<>>
    /\ tree = PyNone
    /\ status = "parsing"
    /\ mode = PyNone
    /\ order = <<>>
    /\ runs = 0
    /\ stack = <<>>
    /\ symbolTables = <<Builtins>>
    /\ expReturnType = PyNone
    /\ errors = <<>>
    /\ programErrors = <<>>
    /\ errorMsg = [p \in AllPaths |-> PyNone]
    /\ inferredType = [p \in ExprPaths |-> PyNone]
    /\ isReturn = [p \in StmtPaths |-> Node(p).kind = "ReturnStmt"]

\* Parser.visit on the next item of the module body, inside visit_Module's
\* list comprehension.  An exception that is no ParseError is caught neither
\* by Parser.visit nor by Compiler.parse, which handles SyntaxError only.
ParserVisitNode ==
    /\ status = "parsing"
    /\ Len(body) < Len(moduleBody)
    /\ LET result == PyVisit(moduleBody[Len(body) + 1])
       IN  /\ parserErrors' = parserErrors \o result.errors
           /\ IF result.raised
              THEN /\ status' = "parser raised"
                   /\ UNCHANGED body
              ELSE /\ body' = Append(body, result.node)
                   /\ UNCHANGED status
    /\ UNCHANGED <<program, runs, stack, symbolTables, expReturnType, errors,
                   programErrors, errorMsg, inferredType, isReturn, moduleBody, tree>>
    /\ UNCHANGED <<mode, order>>

ParserNext == ParserVisitNode \/ visit_Module

ParserSpec == ParserInit /\ [][ParserNext]_vars


(***************************************************************************)
(* Claims about the parser.                                                *)
(***************************************************************************)
\* The expression a visited statement holds.
ValueOf(s) == IF s.kind = "ExprStmt" THEN s.expr ELSE s.value

\* The items of the module body visited so far that are an expression
\* statement, an assignment or a return of a boolean chain whose operands
\* all parse.
ParsedChains ==
    {i \in 1..Len(body) :
        LET s == moduleBody[i]
        IN  /\ s.kind \in {"Expr", "Assign", "Return"}
            /\ s.args[Len(s.args)].kind = "BoolOp"
            /\ \A v \in Range(s.args[Len(s.args)].args) : PyVisit(v).node # PyNone}

ChainOf(i) == moduleBody[i].args[Len(moduleBody[i].args)]

\* t is ((v1 op v2) op v3) ... op vn: n-1 BinaryExpr nodes down the left
\* spine, each with operator op, and v1 .. vn as the leaves from left to right.
RECURSIVE LeftNested(_, _, _, _)
LeftNested(t, op, values, n) ==
    IF n = 1
    THEN t = values[1]
    ELSE /\ t.kind = "BinaryExpr"
         /\ t.operator = op
         /\ t.right = values[n]
         /\ LeftNested(t.left, op, values, n - 1)

\* C26: a boolean chain of n >= 2 operands that all parse is folded into the
\* left-nested tree ((v1 op v2) op v3) ... op vn of n-1 BinaryExpr nodes with
\* the chain's operator and the operands as leaves in source order.
C26_BinaryReduce ==
    \A i \in ParsedChains :
        LET c == ChainOf(i)
        IN  LeftNested(ValueOf(body[i]), c.op,
                       [j \in 1..Len(c.args) |-> PyVisit(c.args[j]).node], Len(c.args))

\* A chain of three operands has been folded into a tree whose left child is
\* a BinaryExpr again.
C26_Witness ==
    /\ status = "parsed"
    /\ \E i \in ParsedChains :
          /\ Len(ChainOf(i).args) >= 3
          /\ ValueOf(body[i]).kind = "BinaryExpr"
          /\ ValueOf(body[i]).left.kind = "BinaryExpr"
          /\ ValueOf(body[i]).left.left.kind = "Identifier"


\* The Python nodes of a source tree: the node and everything under it.
RECURSIVE NodesOf(_)
NodesOf(n) == {n} \cup UNION {NodesOf(c) : c \in Range(n.args \o n.body \o n.orelse)}

\* The expression forms and statements the parser translates around their
\* sub-expressions.
EnclosingForms == {"BoolOp", "BinOp", "UnaryOp", "Compare", "IfExp", "Call",
                   "Assign", "Return", "Expr"}

\* Items of the module body that hold a sub-expression the parser rejects
\* inside an enclosing form.
FailingInside ==
    {i \in 1..Len(moduleBody) :
        \E n \in NodesOf(moduleBody[i]) :
            /\ n.kind \in EnclosingForms
            /\ \E k \in 1..Len(n.args) :
                  /\ n.args[k].kind \in {"Attribute", "Constant"}
                  /\ PyVisit(n.args[k]).errors # <<>>}

\* C27: a parse failure inside a sub-expression is recovered there for every
\* enclosing form: no exception leaves the parser, and the visit of the
\* module returns with the diagnostic recorded.
C27_Recovered ==
    /\ status # "parser raised"
    /\ \A i \in FailingInside :
          /\ Len(body) >= i => parserErrors # <<>>
          /\ Len(body) < i => status = "parsing"


\* The node classes whose visit method only raises ParseError("Unsupported").
UnsupportedKinds == {"Attribute", "For", "Global", "ClassDef", "With", "List", "Tuple"}

\* The constructs a visit method rejects on sight: an unsupported class of
\* node, a chained comparison, a constant that is no int, bool, str or None.
Rejected(n) ==
    \/ n.kind \in UnsupportedKinds
    \/ n.kind = "Subscript"
    \/ n.kind = "Compare" /\ Len(n.args) > 2
    \/ n.kind = "Constant" /\ n.op \notin {"int", "bool", "str", "None"}

\* How many rejected constructs a source tree holds.
RECURSIVE RejectedIn(_), RejectedAmong(_)
RejectedAmong(nodes) ==
    IF nodes = <<>> THEN 0 ELSE RejectedIn(Head(nodes)) + RejectedAmong(Tail(nodes))
RejectedIn(n) ==
    (IF Rejected(n) THEN 1 ELSE 0) + RejectedAmong(n.args \o n.body \o n.orelse)

\* Every sibling of the module body is a statement that holds exactly one
\* rejected construct.
OneUnsupportedEach ==
    \A i \in 1..Len(moduleBody) :
        /\ moduleBody[i].kind \in {"Expr", "Assign", "Return", "For", "Global",
                                   "ClassDef", "With"}
        /\ RejectedIn(moduleBody[i]) = 1

\* C21: k sibling statements that each hold one unsupported construct give
\* exactly k diagnostics in source order in one pass: each visited sibling has
\* added its one diagnostic, a sibling that fails as a whole is replaced by
\* None, and the pass goes on to the end of the body.
C21_Recovery ==
    OneUnsupportedEach =>
        /\ status \in {"parsing", "parsed"}
        /\ Len(parserErrors) = Len(body)
        /\ \A i \in 1..Len(body) :
              moduleBody[i].kind \in UnsupportedKinds => body[i] = PyNone
        /\ status = "parsed" => Len(body) = Len(moduleBody)


\* The source nodes under the statement lists of n.
Under(n) == UNION {NodesOf(c) : c \in Range(n.body \o n.orelse)}

IsDeclaration(n) == n.kind \in {"AnnAssign", "FunctionDef", "ClassDef"}

\* A declaration follows a statement in the block b.
OutOfOrder(b) ==
    \E i, j \in 1..Len(b) : i < j /\ ~IsDeclaration(b[i]) /\ IsDeclaration(b[j])

\* The source node n breaks a structural rule: a function body with a
\* declaration after a statement or with a definition inside it, a while or
\* if with a declaration inside it.
BreaksRule(n) ==
    \/ /\ n.kind = "FunctionDef"
       /\ \/ OutOfOrder(n.body)
          \/ \E m \in Under(n) : m.kind \in {"FunctionDef", "ClassDef"}
    \/ /\ n.kind \in {"While", "If"}
       /\ \E m \in Under(n) : IsDeclaration(m)

SourceBreaksRule ==
    \/ OutOfOrder(moduleBody)
    \/ \E i \in 1..Len(moduleBody) : \E n \in NodesOf(moduleBody[i]) : BreaksRule(n)

\* The statements of a block of the parser's tree, with those nested in the
\* bodies of its while and if statements.
RECURSIVE StatementsIn(_)
StatementsIn(b) ==
    UNION {{s} \cup (CASE s.kind = "WhileStmt" -> StatementsIn(s.body)
                       [] s.kind = "IfStmt" -> StatementsIn(s.thenBody \o s.elseBody)
                       [] OTHER -> {}) : s \in Range(b)}

\* The tree keeps the rules: declarations and statements are apart, no
\* function declares a function, and no statement list holds a declaration.
Legal(t) ==
    /\ \A s \in StatementsIn(t.statements) : s.kind \notin {"VarDef", "FuncDef"}
    /\ \A d \in Range(t.declarations) :
          /\ d.kind \in {"VarDef", "FuncDef"}
          /\ d.kind = "FuncDef" =>
                /\ \A e \in Range(d.declarations) : e.kind = "VarDef"
                /\ \A s \in StatementsIn(d.statements) : s.kind \notin {"VarDef", "FuncDef"}

\* A tree returned without diagnostics keeps the structural rules.
C22_TreeLegal ==
    status = "parsed" /\ parserErrors = <<>> /\ tree # PyNone => Legal(tree)

\* C22: a tree returned with no diagnostic has no declaration after a
\* statement, no function inside a function and no declaration inside a while
\* or if; and a source that breaks one of these rules leaves a diagnostic.
C22_StructuralLegality ==
    /\ C22_TreeLegal
    /\ status = "parsed" /\ SourceBreaksRule => parserErrors # <<>>

=============================================================================
